---- MODULE Spec2Model ----
(***************************************************************************)
(* singAssist: the audio-analysis engine (Detector, EnergyGate, Smoother,  *)
(* TrackAnalyzer, LivePipeline, PitchHistory) and the session object App   *)
(* that runs it on a UI thread, a calibrate/load goroutine and a capture   *)
(* goroutine.                                                              *)
(*                                                                         *)
(* Numbers.  A float64 is the record [neg, hi, lo, e] of its sign, 53-bit   *)
(* significand and exponent, and its operations round as IEEE 754 does.    *)
(* A sample is an integer q that stands for the float32 q / SampleDen.     *)
(* Frequencies that are the quotient of two integers are rationals [n, d]  *)
(* in lowest terms until they are stored.  Times are integer milliseconds. *)
(***************************************************************************)
EXTENDS Integers, Sequences, FiniteSets, TLC

(* ------------------------------ constants ------------------------------ *)
SampleRate == 44100
MaxUserPitchHistoryMs == 30000
SeekMs == 10000
SmootherSize == 5
PcmFullScale == 32768
MaxGapFrames == 20
MaxCalibrationBlocks == 500
ScreenW == 1000
PixelsPerSec == 150
AudioLatencyMs == 150

\* amplitude unit of a sample: q stands for q / SampleDen, one level of int16
SampleDen == PcmFullScale

(* ------------------------------- bounds -------------------------------- *)
\* samples per block (stands for config.BufferSize and for the 10 ms block)
BlockLen == 46
\* the playback clock runs over 0 .. MaxTicks * TickMs
MaxTicks == 1
\* a capture begins while the history holds less than MaxHistPairs pairs
\* inside the retention window (two sessions), MaxCapturePairs (one session)
MaxHistPairs == 1
MaxCapturePairs == 3
\* the user presses Space, Left or Right at most MaxKeys times while one
\* player is installed
MaxKeys == 1

\* pruneUserPitch is called on every history of at most MaxPrunePairs pairs
MaxPrunePairs == 3

\* Stop and cleanup are called up to MaxStopCalls times in a row
MaxStopCalls == 3

\* DetectPitch is called on every block of at most MaxDetectLen samples
MaxDetectLen == 5
\* analyzePitch is called on every track of at most MaxTrackBlocks blocks
MaxTrackBlocks == 2
\* and on tracks with a gap of at most MaxGapBlocks silent blocks
MaxGapBlocks == 1
\* samples between the pulses of a test block
PulseSpacing == 50
\* samples between the pulses of a block pitched above 1000 Hz
FastSpacing == 40

\* Smooth is called up to MaxSmoothCalls times in a row on one smoother
MaxSmoothCalls == 6

\* fillShortGaps is called on every track of at most MaxFillLen entries, with
\* a maximum gap of 0 .. MaxFillGap
MaxFillLen == 7
MaxFillGap == 3

\* up to MaxAppends readings are appended to one history
MaxAppends == 5

\* calibrateSilenceFromAudio is called on every track of at most MaxCalibBlocks
\* blocks and on tracks of LongTrackBlocks blocks
MaxCalibBlocks == 3
LongTrackBlocks == 11

MaxEnergyLen == 4
MaxFreqHz == 16
\* longest of the short pitch tracks handed to the renderer, the length of the
\* long one (past the block at 290 ms), and most pairs of its history
MaxDrawLen == 3
LongDrawLen == 30
MaxDrawPairs == 2
\* one tick of the model's clock carries the position past the retention window
TickMs == MaxUserPitchHistoryMs + SeekMs
MaxPosMs == MaxTicks * TickMs

\* the element of a one-element set: in The({e(x) : x \in {v}}) the value v
\* is computed once and e reads it as x
The(S) == CHOOSE x \in S : TRUE

(* ------------------------------ rationals ------------------------------ *)
RECURSIVE GCD(_, _)
GCD(a, b) == IF b = 0 THEN a ELSE The({GCD(b, r) : r \in {a % b}})

Abs(x) == IF x < 0 THEN -x ELSE x

Reduced(n, d, g) == [n |-> n \div g, d |-> d \div g]

Rat(n, d) ==
    The({IF num = 0 THEN [n |-> 0, d |-> 1]
         ELSE The({Reduced(num, den, g) : g \in {GCD(Abs(num), den)}}) :
             num \in {n}, den \in {d}})

RZero == [n |-> 0, d |-> 1]
RInt(k) == [n |-> k, d |-> 1]
\* comparisons
RLt(a, b) == a.d # 0 /\ b.d # 0 /\ a.n * b.d < b.n * a.d
RLe(a, b) == a.d # 0 /\ b.d # 0 /\ a.n * b.d <= b.n * a.d

(* ------------------------------- float64 ------------------------------- *)
\* A float64: the value (hi * Limb + lo) * 2^e, negated when neg, with the
\* 53-bit significand of IEEE 754 binary64 kept in two limbs (Limb <= hi <
\* 2 * Limb, 0 <= lo < Limb); zero is FZero, 0.0/0.0 is FNaN.  The operations
\* round to nearest, ties to even, as the hardware does, each on its own
\* (no fused multiply-add).
Limb == 67108864

FZero == [neg |-> FALSE, hi |-> 0, lo |-> 0, e |-> 0]

\* not a number
FNaN == [neg |-> FALSE, hi |-> 0, lo |-> 1, e |-> 0]

IsNaN(x) == x.hi = 0 /\ x.lo = 1

FPositive(x) == ~x.neg /\ x.hi > 0

FNeg(x) == IF x.hi = 0 THEN x ELSE [x EXCEPT !.neg = ~@]

\* the significand [hi, lo] with the bits shifted out below it summed up in
\* guard (the first of them) and sticky (whether any later one is set),
\* shifted right by one more bit
FShr1(x) ==
    [hi |-> x.hi \div 2,
     lo |-> (x.lo \div 2) + (x.hi % 2) * (Limb \div 2),
     guard |-> x.lo % 2,
     sticky |-> IF x.guard = 1 \/ x.sticky = 1 THEN 1 ELSE 0]

\* shifted right by k more bits: by the first half of them, then by the rest
RECURSIVE FShr(_, _)
FShr(x, k) ==
    IF k = 0 THEN x
    ELSE IF k = 1 THEN FShr1(x)
    ELSE The({FShr(y, k - k \div 2) : y \in {FShr(x, k \div 2)}})

\* round the significand x = [hi, lo, guard, sticky] at exponent e
FRound(x, e) ==
    IF ~(x.guard = 1 /\ (x.sticky = 1 \/ x.lo % 2 = 1))
    THEN [neg |-> FALSE, hi |-> x.hi, lo |-> x.lo, e |-> e]
    ELSE IF x.lo + 1 < Limb THEN [neg |-> FALSE, hi |-> x.hi, lo |-> x.lo + 1, e |-> e]
    ELSE IF x.hi + 1 < 2 * Limb THEN [neg |-> FALSE, hi |-> x.hi + 1, lo |-> 0, e |-> e]
    ELSE [neg |-> FALSE, hi |-> Limb, lo |-> 0, e |-> e + 1]

\* the sum of a significand at exponent e and one already aligned to it
FAddAligned(a, bs, e) ==
    The({IF t.hi >= 2 * Limb THEN FRound(FShr(t, 1), e + 1) ELSE FRound(t, e) :
             t \in {[hi |-> a.hi + bs.hi + ((a.lo + bs.lo) \div Limb),
                     lo |-> (a.lo + bs.lo) % Limb,
                     guard |-> bs.guard, sticky |-> bs.sticky]}})

\* |a| + |b| for a and b other than zero
FAddMag(a, b) ==
    IF a.e < b.e THEN
        FAddAligned(b, FShr([hi |-> a.hi, lo |-> a.lo, guard |-> 0, sticky |-> 0],
                            IF b.e - a.e > 55 THEN 55 ELSE b.e - a.e), b.e)
    ELSE
        FAddAligned(a, FShr([hi |-> b.hi, lo |-> b.lo, guard |-> 0, sticky |-> 0],
                            IF a.e - b.e > 55 THEN 55 ELSE a.e - b.e), a.e)

\* |x| > |y|, for numbers
FMagGt(x, y) ==
    /\ x.hi > 0
    /\ \/ y.hi = 0
       \/ x.e > y.e
       \/ x.e = y.e /\ (x.hi > y.hi \/ (x.hi = y.hi /\ x.lo > y.lo))

\* the significand of x with three more bits below it
FWiden(x) ==
    [hi |-> x.hi * 8 + ((x.lo * 8) \div Limb), lo |-> (x.lo * 8) % Limb,
     guard |-> 0, sticky |-> 0]

\* the widened a minus the widened and aligned bs, one less when bits of bs
\* were shifted out (they are the sticky of the difference)
FSubWide(a, bs, e) ==
    The({[hi |-> a.hi - bs.hi - (IF a.lo - bs.lo - st < 0 THEN 1 ELSE 0),
          lo |-> (a.lo - bs.lo - st) % Limb, sticky |-> st, e |-> e] :
             st \in {IF bs.guard = 1 \/ bs.sticky = 1 THEN 1 ELSE 0}})

\* the widened significand moved up to its 56 bits, by at most k doublings
RECURSIVE FNormWide(_, _)
FNormWide(x, k) ==
    IF k = 0 \/ x.hi >= 8 * Limb THEN x
    ELSE IF k = 1 THEN [x EXCEPT !.hi = 2 * x.hi + (x.lo \div (Limb \div 2)),
                                 !.lo = (2 * x.lo) % Limb, !.e = x.e - 1]
    ELSE The({FNormWide(y, k - k \div 2) : y \in {FNormWide(x, k \div 2)}})

\* the widened significand rounded to 53 bits
FRoundWide(x) ==
    FRound([hi |-> x.hi \div 8, lo |-> (x.lo \div 8) + (x.hi % 8) * (Limb \div 8),
            guard |-> (x.lo \div 4) % 2,
            sticky |-> IF x.lo % 4 # 0 \/ x.sticky = 1 THEN 1 ELSE 0], x.e)

\* |a| - |b| for |a| > |b| > 0
FSubMag(a, b) ==
    FRoundWide(FNormWide(FSubWide(FWiden(a),
                                  FShr(FWiden(b), IF a.e - b.e > 60 THEN 60 ELSE a.e - b.e),
                                  a.e), 56))

\* a + b in float64
FAdd(a, b) ==
    IF IsNaN(a) \/ IsNaN(b) THEN FNaN
    ELSE IF a.hi = 0 THEN b
    ELSE IF b.hi = 0 THEN a
    ELSE IF a.neg = b.neg THEN [FAddMag(a, b) EXCEPT !.neg = a.neg]
    ELSE IF FMagGt(a, b) THEN [FSubMag(a, b) EXCEPT !.neg = a.neg]
    ELSE IF FMagGt(b, a) THEN [FSubMag(b, a) EXCEPT !.neg = b.neg]
    ELSE FZero

\* a - b in float64
FSub(a, b) == FAdd(a, FNeg(b))

\* the four digits of 13 bits of a significand, the last of 14
Digit == 8192
FDigits(x) == <<x.lo % Digit, x.lo \div Digit, x.hi % Digit, x.hi \div Digit>>

\* the digits of the product of two significands before the carries
FMulColumns(a, b) ==
    <<a[1] * b[1],
      a[1] * b[2] + a[2] * b[1],
      a[1] * b[3] + a[2] * b[2] + a[3] * b[1],
      a[1] * b[4] + a[2] * b[3] + a[3] * b[2] + a[4] * b[1],
      a[2] * b[4] + a[3] * b[3] + a[4] * b[2],
      a[3] * b[4] + a[4] * b[3],
      a[4] * b[4]>>

\* the carries taken from column i on: the digits, the last holding the rest
RECURSIVE FMulCarry(_, _, _)
FMulCarry(c, i, carry) ==
    IF i = Len(c) THEN <<c[i] + carry>>
    ELSE <<(c[i] + carry) % Digit>> \o FMulCarry(c, i + 1, (c[i] + carry) \div Digit)

\* the 106-bit product d rounded to 53 bits: its upper half is the
\* significand, the bit below it the guard, the rest the sticky
FMulRound(d, e) ==
    The({IF x.hi >= 2 * Limb THEN FRound(FShr1(x), e + 1) ELSE FRound(x, e) :
             x \in {[hi |-> d[7], lo |-> d[6] * Digit + d[5],
                     guard |-> d[4] \div (Digit \div 2),
                     sticky |-> IF d[4] % (Digit \div 2) # 0 \/ d[3] # 0
                                   \/ d[2] # 0 \/ d[1] # 0 THEN 1 ELSE 0]}})

\* a * b in float64
FMul(a, b) ==
    IF IsNaN(a) \/ IsNaN(b) THEN FNaN
    ELSE IF a.hi = 0 \/ b.hi = 0 THEN FZero
    ELSE [FMulRound(FMulCarry(FMulColumns(FDigits(a), FDigits(b)), 1, 0),
                    a.e + b.e + 52) EXCEPT !.neg = (a.neg # b.neg)]

\* one step of the long division by c: the next bit of the dividend [dhi, dlo]
\* is brought down to the remainder r and the next bit of the quotient
\* [qhi, qlo] comes out
FDivNext(st, c) ==
    The({[dhi |-> (st.dhi % Limb) * 2 + (st.dlo \div (Limb \div 2)),
          dlo |-> (st.dlo * 2) % Limb,
          qhi |-> st.qhi * 2 + ((st.qlo * 2) \div Limb),
          qlo |-> ((st.qlo * 2) % Limb) + (IF r >= c THEN 1 ELSE 0),
          r |-> IF r >= c THEN r - c ELSE r,
          e |-> st.e - 1] :
             r \in {2 * st.r + (st.dhi \div Limb)}})

\* the division runs until the quotient holds 53 bits: k steps of it, none
\* taken once it does, the first half of the steps and then the rest
RECURSIVE FDivLoop(_, _, _)
FDivLoop(st, c, k) ==
    IF k = 0 \/ st.qhi >= Limb THEN st
    ELSE IF k = 1 THEN FDivNext(st, c)
    ELSE The({FDivLoop(mid, c, k - k \div 2) : mid \in {FDivLoop(st, c, k \div 2)}})

\* the 53 bits of the quotient; the bit after them is the guard and a
\* remainder left over is the sticky
FDivEnd(st, c) ==
    The({FRound([hi |-> st.qhi, lo |-> st.qlo, guard |-> nx.qlo % 2,
                 sticky |-> IF nx.r > 0 \/ nx.dhi > 0 \/ nx.dlo > 0 THEN 1 ELSE 0],
                st.e) :
             nx \in {FDivNext(st, c)}})

\* a / float64(c) in float64, for an integer c >= 1: 53 bits of quotient come
\* after at most 31 leading zeros; 0.0/0.0 for c = 0 and a = 0
FDivInt(a, c) ==
    IF IsNaN(a) \/ (a.hi = 0 /\ c = 0) THEN FNaN
    ELSE IF a.hi = 0 THEN FZero
    ELSE The({[FDivEnd(st, c) EXCEPT !.neg = a.neg] :
                  st \in {FDivLoop([dhi |-> a.hi, dlo |-> a.lo, qhi |-> 0, qlo |-> 0,
                                    r |-> 0, e |-> a.e + 53], c, 84)}})

\* the significand [hi, lo] moved up to its 53 bits, by at most k doublings
RECURSIVE FNormalize(_, _)
FNormalize(x, k) ==
    IF k = 0 \/ x.hi >= Limb THEN x
    ELSE IF k = 1 THEN [x EXCEPT !.hi = 2 * x.hi + (x.lo \div (Limb \div 2)),
                                 !.lo = (2 * x.lo) % Limb, !.e = x.e - 1]
    ELSE The({FNormalize(y, k - k \div 2) : y \in {FNormalize(x, k \div 2)}})

\* float64 of the integer h * Limb + l, for 0 <= h < 2 * Limb and 0 <= l < Limb
FromLimbs(h, l) ==
    IF h = 0 /\ l = 0 THEN FZero
    ELSE FNormalize([neg |-> FALSE, hi |-> h, lo |-> l, e |-> 0], 52)

\* float64(n) for an integer n
FromInt(n) ==
    IF n < 0 THEN FNeg(FromLimbs((-n) \div Limb, (-n) % Limb))
    ELSE FromLimbs(n \div Limb, n % Limb)

\* x * 2^k, exact
FScale(x, k) == IF x.hi = 0 THEN x ELSE [x EXCEPT !.e = @ + k]

\* the float64 a rational stands for: float64(n) / float64(d)
ToFloat64(val) ==
    IF val.d = 0 THEN FNaN
    ELSE IF val.n < 0 THEN FNeg(FDivInt(FromInt(-val.n), val.d))
    ELSE FDivInt(FromInt(val.n), val.d)

\* x > y in float64; FALSE when an operand is not a number
FGt(x, y) ==
    /\ ~IsNaN(x) /\ ~IsNaN(y)
    /\ IF x.neg /\ x.hi > 0
       THEN y.neg /\ y.hi > 0 /\ FMagGt(y, x)
       ELSE (y.neg /\ y.hi > 0) \/ FMagGt(x, y)

FLt(x, y) == FGt(y, x)

\* the greater of two numbers
FMax(x, y) == IF FGt(y, x) THEN y ELSE x

\* x <= y in float64; FALSE when an operand is not a number
FLe(x, y) == ~IsNaN(x) /\ ~IsNaN(y) /\ ~FGt(x, y)

\* the integer hi * Limb + lo of two limbs: its order, difference and double
LimbGe(x, y) == x.hi > y.hi \/ (x.hi = y.hi /\ x.lo >= y.lo)

LimbSub(x, y) ==
    IF x.lo >= y.lo THEN [hi |-> x.hi - y.hi, lo |-> x.lo - y.lo]
    ELSE [hi |-> x.hi - y.hi - 1, lo |-> x.lo + Limb - y.lo]

LimbDouble(x) == [hi |-> 2 * x.hi + (2 * x.lo) \div Limb, lo |-> (2 * x.lo) % Limb]

\* one step of the long division of two significands: the next bit of the
\* quotient q comes out of the remainder r, which is doubled for the next one
FQuoNext(st, b) ==
    IF LimbGe(st.r, b)
    THEN [q |-> [LimbDouble(st.q) EXCEPT !.lo = @ + 1],
          r |-> LimbDouble(LimbSub(st.r, b))]
    ELSE [q |-> LimbDouble(st.q), r |-> LimbDouble(st.r)]

\* k steps of it: the first half of them, then the rest
RECURSIVE FQuoLoop(_, _, _)
FQuoLoop(st, b, k) ==
    IF k = 0 THEN st
    ELSE IF k = 1 THEN FQuoNext(st, b)
    ELSE The({FQuoLoop(mid, b, k - k \div 2) : mid \in {FQuoLoop(st, b, k \div 2)}})

\* a / b in float64 for a divisor b other than zero (0.0/0.0 is not a number):
\* 55 bits of the quotient of the significands, which lies between 1/2 and 2,
\* hold its 53 bits, the guard and, with the remainder, the sticky
FDiv(a, b) ==
    IF IsNaN(a) \/ IsNaN(b) \/ b.hi = 0 THEN FNaN
    ELSE IF a.hi = 0 THEN FZero
    ELSE The({[(IF st.q.hi >= 4 * Limb
                THEN FRound([hi |-> st.q.hi \div 4,
                             lo |-> (st.q.hi % 4) * (Limb \div 4) + st.q.lo \div 4,
                             guard |-> (st.q.lo \div 2) % 2,
                             sticky |-> IF st.q.lo % 2 = 1 \/ st.r.hi > 0 \/ st.r.lo > 0
                                        THEN 1 ELSE 0],
                            a.e - b.e - 52)
                ELSE FRound([hi |-> st.q.hi \div 2,
                             lo |-> (st.q.hi % 2) * (Limb \div 2) + st.q.lo \div 2,
                             guard |-> st.q.lo % 2,
                             sticky |-> IF st.r.hi > 0 \/ st.r.lo > 0 THEN 1 ELSE 0],
                            a.e - b.e - 53))
               EXCEPT !.neg = (a.neg # b.neg)] :
                  st \in {FQuoLoop([q |-> [hi |-> 0, lo |-> 0],
                                    r |-> [hi |-> a.hi, lo |-> a.lo]], b, 55)}})

\* int(x) for a number x with |x| < 2^31: the conversion of Go truncates
\* toward zero
FTrunc(x) ==
    IF x.hi = 0 \/ x.e <= -53 THEN 0
    ELSE The({IF x.neg THEN -n ELSE n :
                 n \in {IF x.e <= -26 THEN x.hi \div 2^((-x.e) - 26)
                        ELSE x.hi * 2^(26 + x.e) + x.lo \div 2^(-x.e)}})

\* math.Round(x) for a number x with |x| < 2^30: the nearest integer, halves
\* away from zero, which is floor(|x| + 1/2) with the sign of x
Round(x) ==
    The({IF x.neg THEN FromInt(-n) ELSE FromInt(n) :
            n \in {(FTrunc(FScale([x EXCEPT !.neg = FALSE], 1)) + 1) \div 2}})

(* ------------------------------ Detector ------------------------------- *)
\* A sum of products or squares of samples, in units of 1 / SampleDen^2, kept
\* in two parts: the integer h * SampleDen + l.  Each term is below 2^31 and
\* so is each part of a sum of less than SampleDen terms; the sum itself is
\* below 2^53, exact in float64 whatever the order of the additions.
Part(v) == [h |-> v \div SampleDen, l |-> v % SampleDen]
PartAdd(x, y) == [h |-> x.h + y.h, l |-> x.l + y.l]
PartZero == [h |-> 0, l |-> 0]
\* the parts with 0 <= l < SampleDen
PartNorm(x) == [h |-> x.h + x.l \div SampleDen, l |-> x.l % SampleDen]
\* x > y, for normal parts
PartGt(x, y) == x.h > y.h \/ (x.h = y.h /\ x.l > y.l)
\* the float64 of a sum that is not negative
PartFloat(x) ==
    The({FScale(FromLimbs(n.h \div (Limb \div SampleDen),
                          (n.h % (Limb \div SampleDen)) * SampleDen + n.l), -30) :
             n \in {PartNorm(x)}})

\* the inner loop 'for i := 0; i < limit; i += 2 { cross += float64(samples[i])
\* * float64(samples[i+tau]) }': the sum of its terms for i = from, from+2,
\* ... < to, added up as a first half plus a second half (the model's
\* sequences are 1-based, the code's slices 0-based)
\* how many i = from, from+2, ... are below to
Iterations(from, to) == (to - from + 1) \div 2

RECURSIVE CrossSum(_, _, _, _)
CrossSum(samples, tau, from, to) ==
    IF Iterations(from, to) <= 0 THEN PartZero
    ELSE IF Iterations(from, to) = 1
    THEN Part(samples[from + 1] * samples[from + tau + 1])
    ELSE The({The({PartAdd(first, second) :
                       first \in {CrossSum(samples, tau, from, mid)},
                       second \in {CrossSum(samples, tau, mid, to)}}) :
                  mid \in {from + 2 * (Iterations(from, to) \div 2)}})

\* the loop over tau, 'if cross > maxVal { maxVal = cross; bestPeriod = tau }'
\* from bestPeriod = 0, maxVal = 0: [bestPeriod, maxVal] after the lags
\* from .. to-1.  The loop keeps the first lag with the greatest positive
\* cross, so the result over a range is that of its first half unless the
\* second half holds a greater cross.
RECURSIVE LagScan(_, _, _)
LagScan(samples, from, to) ==
    IF from >= to THEN [bestPeriod |-> 0, maxVal |-> PartZero]
    ELSE IF to - from = 1
    THEN The({IF PartGt(cross, PartZero) THEN [bestPeriod |-> from, maxVal |-> cross]
              ELSE [bestPeriod |-> 0, maxVal |-> PartZero] :
                  cross \in {PartNorm(CrossSum(samples, from, 0, Len(samples) - from))}})
    ELSE The({The({IF PartGt(second.maxVal, first.maxVal) THEN second ELSE first :
                       first \in {LagScan(samples, from, mid)},
                       second \in {LagScan(samples, mid, to)}}) :
                  mid \in {from + (to - from) \div 2}})

MinPeriod(maxFreq) ==
    LET p == SampleRate \div maxFreq IN IF p < 2 THEN 2 ELSE p

MaxPeriod(n, minFreq) ==
    LET p == SampleRate \div minFreq IN IF p >= n THEN n - 1 ELSE p

BestPeriod(samples, minFreq, maxFreq) ==
    IF Len(samples) = 0 THEN 0
    ELSE The({LagScan(samples, minPeriod, maxPeriod).bestPeriod :
                  minPeriod \in {MinPeriod(maxFreq)},
                  maxPeriod \in {MaxPeriod(Len(samples), minFreq)}})

\* the result as the quotient of two integers; ToFloat64 gives its float64
DetectPitch(samples, minFreq, maxFreq) ==
    The({IF bestPeriod = 0 THEN RZero ELSE Rat(SampleRate, bestPeriod) :
             bestPeriod \in {BestPeriod(samples, minFreq, maxFreq)}})

(* ----------------------------- EnergyGate ------------------------------ *)
\* the float32 nearest to the integer v >= 0 (24 bits, ties to even): v
\* without its last k bits, rounded, for the least k that leaves 24 bits
RECURSIVE Round24Shift(_, _)
Round24Shift(v, k) ==
    IF v \div 2^k < 2^24
    THEN The({(q + (IF 2 * r > 2^k \/ (2 * r = 2^k /\ q % 2 = 1) THEN 1 ELSE 0)) * 2^k :
                  q \in {v \div 2^k}, r \in {v % 2^k}})
    ELSE Round24Shift(v, k + 1)

Round24(v) == Round24Shift(v, 0)

\* 'for _, s := range samples { e += float64(s * s) }': the sum of the squares
\* of samples[from .. to-1], each square rounded to float32, added up as a
\* first half plus a second half
RECURSIVE SumSq(_, _, _)
SumSq(samples, from, to) ==
    IF from >= to THEN PartZero
    ELSE IF to - from = 1 THEN Part(Round24(samples[from + 1] * samples[from + 1]))
    ELSE The({The({PartAdd(first, second) :
                       first \in {SumSq(samples, from, mid)},
                       second \in {SumSq(samples, mid, to)}}) :
                  mid \in {from + (to - from) \div 2}})

\* the sum of the squared amplitudes, without the division by len(samples)
CalculateEnergy_Sum(samples) == PartFloat(SumSq(samples, 0, Len(samples)))

\* mean of the squared amplitudes; 0.0 / 0.0 for an empty block
CalculateEnergy(samples) ==
    The({FDivInt(e, Len(samples)) : e \in {PartFloat(SumSq(samples, 0, Len(samples)))}})

(* ------------------------------ Smoother ------------------------------- *)
NewSmoother(size) == [buffer |-> [i \in 1..size |-> FZero], cursor |-> 0]

\* 'for _, v := range s.buffer { if v > 0 { sum += v; count++ } }': sum after
\* the entries from i on have been added to it, in the order of the buffer
RECURSIVE SumPositive(_, _, _)
SumPositive(buffer, i, sum) ==
    IF i > Len(buffer) THEN sum
    ELSE The({SumPositive(buffer, i + 1, acc) :
                  acc \in {IF FPositive(buffer[i]) THEN FAdd(sum, buffer[i]) ELSE sum}})

\* the count of all entries, positive or not
CountPositive_All(buffer) == Len(buffer)

CountPositive(buffer) == Cardinality({i \in 1..Len(buffer) : FPositive(buffer[i])})

\* Smooth that returns 0 for val <= 0 and leaves the buffer as it is
Smooth_KeepBuffer(s, val) ==
    IF FLe(val, FZero)
    THEN [s |-> s, out |-> FZero]
    ELSE The({[s |-> [buffer |-> buffer, cursor |-> (s.cursor + 1) % Len(s.buffer)],
               out |-> The({FDivInt(sum, CountPositive(buffer)) :
                                sum \in {SumPositive(buffer, 1, FZero)}})] :
                  buffer \in {[s.buffer EXCEPT ![s.cursor + 1] = val]}})

\* Smooth(val) on the smoother s: [s |-> the smoother afterwards, out |-> the
\* result]; 'if val <= 0' is false for a NaN, which is stored and not counted
Smooth(s, val) ==
    IF FLe(val, FZero)
    THEN [s |-> [s EXCEPT !.buffer = [i \in 1..Len(s.buffer) |-> FZero]], out |-> FZero]
    ELSE The({[s |-> [buffer |-> buffer, cursor |-> (s.cursor + 1) % Len(s.buffer)],
               out |-> IF CountPositive(buffer) = 0 THEN FZero
                       ELSE The({FDivInt(sum, CountPositive(buffer)) :
                                     sum \in {SumPositive(buffer, 1, FZero)}})] :
                  buffer \in {[s.buffer EXCEPT ![s.cursor + 1] = val]}})

\* Reset() on the smoother s: 'for i := range s.buffer { s.buffer[i] = 0 }'
Reset(s) == [s EXCEPT !.buffer = [i \in 1..Len(s.buffer) |-> FZero]]

(* ----------------------------- MicHandler ------------------------------ *)
Modes == {"Singing", "Instrumental", "FullMix", "NoAudio"}

Silence == [i \in 1..BlockLen |-> 0]

NewMicHandler ==
    [Stream |-> "nil", Done |-> "nil", Buffer |-> Silence,
     Smoother |-> NewSmoother(SmootherSize), Pitch |-> FZero, Threshold |-> FZero]

\* Start: maxRetries := 3
MaxRetries == 3

\* the outcomes of one attempt of Start: OpenDefaultStream fails, or it
\* succeeds and Stream.Start fails, or both succeed
AttemptOutcomes == {"open_fails", "start_fails", "ok"}

\* the same delay before every retry
BackoffMs_Constant(attempt) == 200

\* time.Sleep(time.Duration(100*(1<<attempt)) * time.Millisecond)
BackoffMs(attempt) == 100 * 2^attempt

\* select { case <-m.Done: true; default: false }: a nil channel is never ready
IsDone(m) == m.Done = "closed"

LiveMinF(md) == IF md = "Singing" THEN 85 ELSE 40
LiveMaxF(md) == IF md = "Singing" THEN 1100 ELSE 2000

\* the gate with 'energy <= m.Threshold' for 'energy < m.Threshold'
LiveGated_OrEqual(m) ==
    The({FLe(energy, m.Threshold) : energy \in {CalculateEnergy(m.Buffer)}})

\* the gate of the live pipeline: TRUE when the block is rejected
LiveGated(m) ==
    The({FLt(energy, m.Threshold) : energy \in {CalculateEnergy(m.Buffer)}})

\* DetectPitchFromMic(mode) on the handler m: [m |-> the handler afterwards,
\* out |-> the returned pitch, detected |-> whether DetectPitch was called,
\* minF, maxF |-> the bounds it was called with]
DetectPitchFromMic(m, md) ==
    IF LiveGated(m)
    THEN [m |-> [m EXCEPT !.Pitch = FZero], out |-> FZero, detected |-> FALSE,
          minF |-> 0, maxF |-> 0]
    ELSE The({The({[m |-> [m EXCEPT !.Smoother = sm.s, !.Pitch = sm.out],
                    out |-> sm.out, detected |-> TRUE,
                    minF |-> LiveMinF(md), maxF |-> LiveMaxF(md)] :
                       sm \in {Smooth(m.Smoother, ToFloat64(rawPitch))}}) :
                  rawPitch \in {DetectPitch(m.Buffer, LiveMinF(md), LiveMaxF(md))}})

(* ---------------------------- PitchHistory ----------------------------- *)
\* the flat slice [timeMs, pitch, timeMs, pitch, ...]; 0-based index i is [i + 1]
RECURSIVE CutIdx(_, _, _)
CutIdx(up, minMs, i) ==
    IF i >= Len(up) THEN i
    ELSE IF RLe(RInt(minMs), up[i + 1]) THEN i
         ELSE CutIdx(up, minMs, i + 2)

\* pruneUserPitch that also drops an entry exactly MaxUserPitchHistoryMs old
pruneUserPitch_DropBoundary(up, currentMs) ==
    LET minMs == currentMs - MaxUserPitchHistoryMs
        cutIdx == CutIdx(up, minMs + 1, 0)
    IN  IF Len(up) = 0 THEN up
        ELSE IF minMs <= 0 THEN up
        ELSE IF cutIdx > 0 /\ cutIdx < Len(up) THEN SubSeq(up, cutIdx + 1, Len(up))
        ELSE up

pruneUserPitch(up, currentMs) ==
    LET minMs == currentMs - MaxUserPitchHistoryMs
        cutIdx == CutIdx(up, minMs, 0)
    IN  IF Len(up) = 0 THEN up
        ELSE IF minMs <= 0 THEN up
        ELSE IF cutIdx > 0 /\ cutIdx < Len(up) THEN SubSeq(up, cutIdx + 1, Len(up))
        ELSE up

(* ---------------------------- TrackAnalyzer ---------------------------- *)
\* A decoded track t: t.pcm is the left-channel int16 of each 4-byte frame,
\* t.extra the number of bytes after the last whole frame.
StepFrames == SampleRate \div 100
StepBytes == StepFrames * 4
LenBytes(t) == 4 * Len(t.pcm) + t.extra

\* float32(s16) / 32768.0, exact in float32, as a sample in units of 1 / SampleDen
PcmToFloat(s16) == (s16 * SampleDen) \div PcmFullScale

\* floatBuf after the decode loop over chunk = pcmBytes[i : i+stepBytes]
FloatBuf(t, i) == [j \in 1..StepFrames |-> PcmToFloat(t.pcm[i \div 4 + j])]

RECURSIVE CalibrationEnergies(_, _, _)
CalibrationEnergies(t, sampleCount, i) ==
    IF i < sampleCount * StepBytes /\ i < LenBytes(t) - StepBytes
    THEN <<CalculateEnergy(FloatBuf(t, i))>>
            \o CalibrationEnergies(t, sampleCount, i + StepBytes)
    ELSE <<>>

\* the hand-written sort: for i, for j > i, swap when sorted[j] < sorted[i]
\* (1-based here)
RECURSIVE SortInner(_, _, _)
SortInner(sorted, i, j) ==
    IF j > Len(sorted) THEN sorted
    ELSE SortInner(IF FLt(sorted[j], sorted[i])
                   THEN [sorted EXCEPT ![i] = sorted[j], ![j] = sorted[i]]
                   ELSE sorted, i, j + 1)

RECURSIVE SortEnergies(_, _)
SortEnergies(sorted, i) ==
    IF i >= Len(sorted) THEN sorted
    ELSE SortEnergies(SortInner(sorted, i, i + 1), i + 1)

\* 0.005 for ModeSinging, 0.001 otherwise
SilenceFloor(md) == ToFloat64(IF md = "Singing" THEN Rat(5, 1000) ELSE Rat(1, 1000))

\* calibrateSilenceFromAudio that returns the scaled percentile without the floor
calibrateSilenceFromAudio_NoFloor(t, md) ==
    LET blocks == LenBytes(t) \div StepBytes
        sampleCount == IF blocks < MaxCalibrationBlocks THEN blocks
                       ELSE MaxCalibrationBlocks
        energies == CalibrationEnergies(t, sampleCount, 0)
    IN  IF Len(energies) = 0 THEN SilenceFloor(md)
        ELSE FMul(SortEnergies(energies, 1)[Len(energies) \div 10 + 1], FromInt(3))

calibrateSilenceFromAudio(t, md) ==
    LET blocks == LenBytes(t) \div StepBytes
        sampleCount == IF blocks < MaxCalibrationBlocks THEN blocks
                       ELSE MaxCalibrationBlocks
        energies == CalibrationEnergies(t, sampleCount, 0)
    IN  IF Len(energies) = 0 THEN SilenceFloor(md)
        ELSE LET sortedEnergies == SortEnergies(energies, 1)
                 percentile10 == sortedEnergies[Len(sortedEnergies) \div 10 + 1]
             IN  The({IF FLt(threshold, SilenceFloor(md)) THEN SilenceFloor(md)
                      ELSE threshold :
                          threshold \in {FMul(percentile10, FromInt(3))}})

\* index (0-based) after the run of entries <= 0 that starts at i
RECURSIVE GapEnd(_, _)
GapEnd(result, i) ==
    IF i < Len(result) /\ FLe(result[i + 1], FZero) THEN GapEnd(result, i + 1) ELSE i

\* t := float64(j-gapStart+1) / float64(gapLen+1); startPitch +
\* t*(endPitch-startPitch): the quotient, the difference, the product and the
\* sum each rounded
InterpolateAt(startPitch, endPitch, num, den) ==
    FAdd(startPitch, FMul(FDivInt(FromInt(num), den), FSub(endPitch, startPitch)))

\* the interpolation that writes the first entry of the gap only
Interpolate_FirstOnly(result, gapStart, gapEnd) ==
    [k \in 1..Len(result) |->
        IF k - 1 = gapStart
        THEN InterpolateAt(result[gapStart], result[gapEnd + 1], 1, gapEnd - gapStart + 1)
        ELSE result[k]]

\* the gap filled with startPitch all along
Interpolate_Hold(result, gapStart, gapEnd) ==
    [k \in 1..Len(result) |->
        IF k - 1 >= gapStart /\ k - 1 < gapEnd THEN result[gapStart] ELSE result[k]]

\* result[j] = startPitch + t*(endPitch-startPitch) for gapStart <= j < gapEnd
Interpolate(result, gapStart, gapEnd) ==
    LET gapLen == gapEnd - gapStart
        startPitch == result[gapStart]
        endPitch == result[gapEnd + 1]
    IN  [k \in 1..Len(result) |->
            IF k - 1 >= gapStart /\ k - 1 < gapEnd
            THEN InterpolateAt(startPitch, endPitch, k - gapStart, gapLen + 1)
            ELSE result[k]]

\* the loop over the backing array named arr of the memory mem, from index i
\* on: it reads and writes mem[arr] only
RECURSIVE FillFrom(_, _, _, _)
FillFrom(mem, arr, maxGapFrames, i) ==
    IF i >= Len(mem[arr]) THEN mem
    ELSE IF FLe(mem[arr][i + 1], FZero)
    THEN LET gapEnd == GapEnd(mem[arr], i)
         IN  FillFrom(IF /\ gapEnd - i <= maxGapFrames /\ i > 0 /\ gapEnd < Len(mem[arr])
                         /\ FGt(mem[arr][i], FZero) /\ FGt(mem[arr][gapEnd + 1], FZero)
                      THEN [mem EXCEPT ![arr] = Interpolate(mem[arr], i, gapEnd)]
                      ELSE mem, arr, maxGapFrames, gapEnd)
    ELSE FillFrom(mem, arr, maxGapFrames, i + 1)

\* fillShortGaps with 'result := pitches' for the make and the copy: result
\* shares the backing array of the caller's slice
fillShortGaps_InPlace(pitches, maxGapFrames) ==
    The({[pitches |-> mem.pitches, result |-> mem.pitches] :
             mem \in {FillFrom([pitches |-> pitches], "pitches", maxGapFrames, 0)}})

\* fillShortGaps(pitches, maxGapFrames) on a memory of two backing arrays:
\* result := make([]float64, len(pitches)) allocates the second, copy(result,
\* pitches) fills it and the loop works on it; [pitches |-> the caller's array
\* after the call, result |-> the slice returned]
fillShortGaps(pitches, maxGapFrames) ==
    LET made == [pitches |-> pitches, result |-> [k \in 1..Len(pitches) |-> FZero]]
        copied == [made EXCEPT !.result = made.pitches]
    IN  FillFrom(copied, "result", maxGapFrames, 0)

TrackMinF(md) == IF md = "Singing" THEN 100 ELSE 40
TrackMaxF(md) == IF md = "Singing" THEN 1200 ELSE 2000

\* the iteration without the filter of the vocal-only mode
AnalyzeBlock_NoFilter(t, md, minEnergy, i) ==
    The({IF The({FLt(energy, minEnergy) : energy \in {CalculateEnergy(floatBuf)}})
         THEN [p |-> FZero, detected |-> FALSE]
         ELSE [p |-> ToFloat64(DetectPitch(floatBuf, TrackMinF(md), TrackMaxF(md))),
               detected |-> TRUE] :
             floatBuf \in {FloatBuf(t, i)}})

\* one iteration of the loop of analyzePitch: [p |-> the value appended,
\* detected |-> whether DetectPitch was called]
AnalyzeBlock(t, md, minEnergy, i) ==
    The({IF The({FLt(energy, minEnergy) : energy \in {CalculateEnergy(floatBuf)}})
         THEN [p |-> FZero, detected |-> FALSE]
         ELSE The({[p |-> IF md = "Singing" /\ (FLt(p, FromInt(80)) \/ FGt(p, FromInt(1000)))
                          THEN FZero ELSE p,
                    detected |-> TRUE] :
                       p \in {ToFloat64(DetectPitch(floatBuf, TrackMinF(md), TrackMaxF(md)))}}) :
             floatBuf \in {FloatBuf(t, i)}})

\* for i := 0; i < len(pcmBytes)-stepBytes; i += stepBytes
RECURSIVE AnalyzeLoop(_, _, _, _)
AnalyzeLoop(t, md, minEnergy, i) ==
    IF i < LenBytes(t) - StepBytes
    THEN <<AnalyzeBlock(t, md, minEnergy, i)>>
            \o AnalyzeLoop(t, md, minEnergy, i + StepBytes)
    ELSE <<>>

\* analyzePitch(pcmBytes, mode): [songPitch |-> the track returned, minEnergy |->
\* the calibrated threshold, blocks |-> what the loop did for each block]
analyzePitch(t, md) ==
    The({The({The({[songPitch |-> IF md \in {"Instrumental", "FullMix"}
                                  THEN fillShortGaps(songPitchRaw, MaxGapFrames).result
                                  ELSE songPitchRaw,
                    minEnergy |-> minEnergy,
                    blocks |-> blocks] :
                       songPitchRaw \in {[k \in 1..Len(blocks) |-> blocks[k].p]}}) :
                  blocks \in {AnalyzeLoop(t, md, minEnergy, 0)}}) :
             minEnergy \in {calibrateSilenceFromAudio(t, md)}})

(* ------------------------------ the App -------------------------------- *)
\* number of startGame calls in a run
MaxSessions == 2
\* the modes clicked on the start screen: one with a separation step and a
\* player, one without a player
SessionModes == {"Singing", "NoAudio"}
\* device reads of one calibration pass (the 2 s of Calibrate)
MaxCalReads == 1

Sessions == 1..MaxSessions

VARIABLES
    state,        \* App.state
    mode,         \* App.mode
    message,      \* App.message
    audioPlayer,  \* App.audioPlayer and the player it points to
    songPitch,    \* App.songPitch: "nil" or "track"
    userPitch,    \* App.userPitch, the flat PitchHistory slice
    mic,          \* App.mic: 0 is nil, h > 0 is the handler of session h
    mu,           \* App.mu: free, or held by the UI thread or by a goroutine
    handlers,     \* the MicHandler objects, by session
    ui,           \* the UI thread (Update and Draw of the game loop)
    g,            \* the goroutine of each session: calibrateAndPlay, then micLoop
    sessions,     \* startGame calls so far
    crashed,      \* a goroutine panicked: the process is gone
    device,       \* the blocks the input device can deliver
    call,         \* a function of the analysis engine called on its own: its arguments
    ret           \* the progress and the result of that call

appVars == <<state, mode, message, audioPlayer, songPitch, userPitch, mic, mu,
             handlers, ui, g, sessions, crashed, device, call, ret>>

NoCall == [fn |-> "none"]
NoRet == [done |-> FALSE]

MuFree == [owner |-> "none", s |-> 0]
MuUI == [owner |-> "ui", s |-> 0]
MuG(s) == [owner |-> "g", s |-> s]

\* keys counts the key presses that acted on the player; a closed player does
\* not play again
NoPlayer == [nil |-> TRUE, playing |-> FALSE, pos |-> 0, keys |-> 0, closed |-> FALSE]
NewPlayer == [nil |-> FALSE, playing |-> FALSE, pos |-> 0, keys |-> 0, closed |-> FALSE]

\* where the UI thread is between its nil check of a.audioPlayer and its last
\* read of the field in the same handler
ReadingPlayer == {"cl_pause", "cl_close", "tp_isplaying", "tp_pause", "tp_play",
                  "seek_pos", "seek_set"}

\* a block the input device can deliver besides silence: a full-scale pulse
\* pair 44 samples apart (44100/44 Hz, inside both live ranges)
Tone == [i \in 1..BlockLen |-> IF i \in {1, 45} THEN SampleDen ELSE 0]

\* pc: where it is; m: the mode clicked or the key pressed; ret: the caller of
\* cleanup; p: 1 when a goroutine has stored to a.audioPlayer since the nil
\* check of the handler it is in; n: the attempt of Start, or the position to
\* seek to
UIIdle == [pc |-> "idle", m |-> "", ret |-> "", p |-> 0, n |-> 0]
GNone == [pc |-> "none", h |-> 0, pos |-> 0, pitch |-> FZero, up |-> <<>>,
          energies |-> <<>>, n |-> 0, md |-> "", stale |-> FALSE]

Init ==
    /\ state = "StartScreen"
    /\ mode = "Singing"
    /\ message = ""
    /\ audioPlayer = NoPlayer
    /\ songPitch = "nil"
    /\ userPitch = <<>>
    /\ mic = 0
    /\ mu = MuFree
    /\ handlers = [h \in Sessions |-> NewMicHandler]
    /\ ui = UIIdle
    /\ g = [s \in Sessions |-> GNone]
    /\ sessions = 0
    /\ crashed = FALSE
    /\ device = {Silence}
    /\ call = NoCall
    /\ ret = NoRet

Crash == /\ crashed' = TRUE
         /\ UNCHANGED <<state, mode, message, audioPlayer, songPitch, userPitch,
                        mic, mu, handlers, ui, g, sessions, device, call, ret>>

GoTo(s, pc) == g' = [g EXCEPT ![s].pc = pc]

(* ------------------------------- micLoop ------------------------------- *)
\* if a.mic == nil { return }
MicLoopNilCheck(s) ==
    /\ ~crashed /\ g[s].pc = "ml_top"
    /\ GoTo(s, IF mic = 0 THEN "done" ELSE "ml_isdone")
    /\ UNCHANGED <<state, mode, message, audioPlayer, songPitch, userPitch, mic,
                   mu, handlers, ui, sessions, crashed, device, call, ret>>

\* if a.mic.IsDone() { return }: a.mic is read again
MicLoopIsDone(s) ==
    /\ ~crashed /\ g[s].pc = "ml_isdone"
    /\ IF mic = 0 THEN Crash
       ELSE /\ GoTo(s, IF IsDone(handlers[mic]) THEN "done" ELSE "ml_read")
            /\ UNCHANGED <<state, mode, message, audioPlayer, songPitch, userPitch,
                           mic, mu, handlers, ui, sessions, crashed, device, call, ret>>

\* a.mic.Read(): if m.Stream == nil { return nil }
MicLoopRead(s) ==
    /\ ~crashed /\ g[s].pc = "ml_read"
    /\ IF mic = 0 THEN Crash
       ELSE /\ g' = [g EXCEPT ![s].pc = IF handlers[mic].Stream = "nil"
                                        THEN "ml_state" ELSE "ml_devread",
                              ![s].h = IF handlers[mic].Stream = "nil" THEN 0 ELSE mic]
            /\ UNCHANGED <<state, mode, message, audioPlayer, songPitch, userPitch,
                           mic, mu, handlers, ui, sessions, crashed, device, call, ret>>

\* return m.Stream.Read(): the blocking device read starts.  When Stop has
\* closed the stream since the nil check, the call is on the nil m.Stream
\* (a panic) or on the closed stream read before (stale).
DevReadStart(s, pcIn) ==
    /\ ~crashed
    /\ \/ /\ handlers[g[s].h].Stream = "open"
          /\ g' = [g EXCEPT ![s].pc = pcIn]
          /\ UNCHANGED <<state, mode, message, audioPlayer, songPitch, userPitch,
                         mic, mu, handlers, ui, sessions, crashed, device, call, ret>>
       \/ /\ handlers[g[s].h].Stream = "nil"
          /\ g' = [g EXCEPT ![s].pc = pcIn, ![s].stale = TRUE]
          /\ UNCHANGED <<state, mode, message, audioPlayer, songPitch, userPitch,
                         mic, mu, handlers, ui, sessions, crashed, device, call, ret>>
       \/ /\ handlers[g[s].h].Stream = "nil"
          /\ Crash

MicLoopDevRead(s) == g[s].pc = "ml_devread" /\ DevReadStart(s, "ml_inread")

\* the device read returns: a block in m.Buffer, or an error (the only
\* outcome on a closed stream); an error ends micLoop
MicLoopReadDone(s) ==
    /\ ~crashed /\ g[s].pc = "ml_inread"
    /\ \/ /\ ~g[s].stale
          /\ \E b \in device :
                handlers' = [handlers EXCEPT ![g[s].h].Buffer = b]
          /\ g' = [g EXCEPT ![s].pc = "ml_state", ![s].h = 0]
       \/ /\ g' = [g EXCEPT ![s].pc = "done", ![s].h = 0, ![s].stale = FALSE]
          /\ UNCHANGED handlers
    /\ UNCHANGED <<state, mode, message, audioPlayer, songPitch, userPitch, mic,
                   mu, ui, sessions, crashed, device, call, ret>>

\* if a.state != StatePlaying { continue }
MicLoopState(s) ==
    /\ ~crashed /\ g[s].pc = "ml_state"
    /\ GoTo(s, IF state # "Playing" THEN "ml_top" ELSE "ml_detect")
    /\ UNCHANGED <<state, mode, message, audioPlayer, songPitch, userPitch, mic,
                   mu, handlers, ui, sessions, crashed, device, call, ret>>

\* pitch := a.mic.DetectPitchFromMic(a.mode)
MicLoopDetect(s) ==
    /\ ~crashed /\ g[s].pc = "ml_detect"
    /\ IF mic = 0 THEN Crash
       ELSE \E r \in {DetectPitchFromMic(handlers[mic], mode)} :
                /\ handlers' = [handlers EXCEPT ![mic] = r.m]
                /\ g' = [g EXCEPT ![s].pc = "ml_lock", ![s].pitch = r.out]
                /\ UNCHANGED <<state, mode, message, audioPlayer, songPitch,
                               userPitch, mic, mu, ui, sessions, crashed, device, call, ret>>

\* a.mu.Lock() that does not wait for the holder to release
MicLoopLock_NoWait(s) ==
    /\ ~crashed /\ g[s].pc = "ml_lock"
    /\ mu' = MuG(s)
    /\ GoTo(s, "ml_chkplayer")
    /\ UNCHANGED <<state, mode, message, audioPlayer, songPitch, userPitch, mic,
                   handlers, ui, sessions, crashed, device, call, ret>>

\* a.mu.Lock()
MicLoopLock(s) ==
    /\ ~crashed /\ g[s].pc = "ml_lock"
    /\ mu = MuFree
    /\ mu' = MuG(s)
    /\ GoTo(s, "ml_chkplayer")
    /\ UNCHANGED <<state, mode, message, audioPlayer, songPitch, userPitch, mic,
                   handlers, ui, sessions, crashed, device, call, ret>>

\* if a.audioPlayer != nil &&
MicLoopCheckPlayer(s) ==
    /\ ~crashed /\ g[s].pc = "ml_chkplayer"
    /\ GoTo(s, IF audioPlayer.nil THEN "ml_unlock" ELSE "ml_isplaying")
    /\ UNCHANGED <<state, mode, message, audioPlayer, songPitch, userPitch, mic,
                   mu, handlers, ui, sessions, crashed, device, call, ret>>

\* a.audioPlayer.IsPlaying() {
MicLoopIsPlaying(s) ==
    /\ ~crashed /\ g[s].pc = "ml_isplaying"
    /\ IF audioPlayer.nil THEN Crash
       ELSE /\ GoTo(s, IF audioPlayer.playing THEN "ml_pos" ELSE "ml_unlock")
            /\ UNCHANGED <<state, mode, message, audioPlayer, songPitch, userPitch,
                           mic, mu, handlers, ui, sessions, crashed, device, call, ret>>

\* pos := a.audioPlayer.Position()
MicLoopPosition(s) ==
    /\ ~crashed /\ g[s].pc = "ml_pos"
    /\ IF audioPlayer.nil THEN Crash
       ELSE /\ g' = [g EXCEPT ![s].pc = "ml_append", ![s].pos = audioPlayer.pos]
            /\ UNCHANGED <<state, mode, message, audioPlayer, songPitch, userPitch,
                           mic, mu, handlers, ui, sessions, crashed, device, call, ret>>

\* the append of the timestamp without the pitch
MicLoopAppend_TimeOnly(s) ==
    /\ ~crashed
    /\ \/ /\ g[s].pc = "ml_append"
          /\ g' = [g EXCEPT ![s].pc = "ml_append2", ![s].up = userPitch]
          /\ UNCHANGED userPitch
       \/ /\ g[s].pc = "ml_append2"
          /\ userPitch' = g[s].up \o <<RInt(g[s].pos)>>
          /\ g' = [g EXCEPT ![s].pc = "ml_prune", ![s].up = <<>>, ![s].pitch = FZero]
    /\ UNCHANGED <<state, mode, message, audioPlayer, songPitch, mic, mu,
                   handlers, ui, sessions, crashed, device, call, ret>>

\* a.userPitch = append(a.userPitch, float64(pos.Milliseconds()), pitch):
\* append reads the slice a.userPitch holds; then the result is stored
MicLoopAppend(s) ==
    /\ ~crashed
    /\ \/ /\ g[s].pc = "ml_append"
          /\ g' = [g EXCEPT ![s].pc = "ml_append2", ![s].up = userPitch]
          /\ UNCHANGED userPitch
       \/ /\ g[s].pc = "ml_append2"
          /\ userPitch' = g[s].up \o <<RInt(g[s].pos), g[s].pitch>>
          /\ g' = [g EXCEPT ![s].pc = "ml_prune", ![s].up = <<>>, ![s].pitch = FZero]
    /\ UNCHANGED <<state, mode, message, audioPlayer, songPitch, mic, mu,
                   handlers, ui, sessions, crashed, device, call, ret>>

\* a.pruneUserPitch(pos.Milliseconds()).  The function reads a.userPitch in
\* every statement and the UI thread stores to the field without the lock:
\*   'if len(a.userPitch) == 0 { return }; if minMs <= 0 { return }';
\*   the loop and 'if cutIdx > 0 && cutIdx < len(a.userPitch)': on the slice
\*     read before, or, when the field has been stored to since (with an empty
\*     slice), an index out of range in the loop or no cut;
\*   'newPitch := make(..., len(a.userPitch)-cutIdx); copy(newPitch,
\*     a.userPitch[cutIdx:])': out of range when the slice has been emptied;
\*   'a.userPitch = newPitch'.
MicLoopPrune(s) ==
    /\ ~crashed
    /\ \/ /\ g[s].pc = "ml_prune"
          /\ g' = [g EXCEPT ![s].pc = IF Len(userPitch) = 0
                                         \/ g[s].pos - MaxUserPitchHistoryMs <= 0
                                      THEN "ml_unlock" ELSE "ml_prune_scan",
                            ![s].up = IF Len(userPitch) = 0
                                         \/ g[s].pos - MaxUserPitchHistoryMs <= 0
                                      THEN <<>> ELSE userPitch]
          /\ UNCHANGED <<userPitch, crashed>>
       \/ /\ g[s].pc = "ml_prune_scan"
          /\ userPitch = g[s].up
          /\ g' = [g EXCEPT ![s].pc = IF pruneUserPitch(userPitch, g[s].pos) # userPitch
                                      THEN "ml_prune_copy" ELSE "ml_unlock",
                            ![s].up = IF pruneUserPitch(userPitch, g[s].pos) # userPitch
                                      THEN @ ELSE <<>>]
          /\ UNCHANGED <<userPitch, crashed>>
       \/ /\ g[s].pc = "ml_prune_scan"
          /\ userPitch # g[s].up
          /\ \/ /\ g' = [g EXCEPT ![s].pc = "ml_unlock", ![s].up = <<>>]
                /\ UNCHANGED <<userPitch, crashed>>
             \/ /\ crashed' = TRUE
                /\ UNCHANGED <<userPitch, g>>
       \/ /\ g[s].pc = "ml_prune_copy"
          /\ IF userPitch = g[s].up
             THEN /\ g' = [g EXCEPT ![s].pc = "ml_prune_store",
                                    ![s].up = pruneUserPitch(userPitch, g[s].pos)]
                  /\ UNCHANGED <<userPitch, crashed>>
             ELSE /\ crashed' = TRUE
                  /\ UNCHANGED <<userPitch, g>>
       \/ /\ g[s].pc = "ml_prune_store"
          /\ userPitch' = g[s].up
          /\ g' = [g EXCEPT ![s].pc = "ml_unlock", ![s].up = <<>>]
          /\ UNCHANGED crashed
    /\ UNCHANGED <<state, mode, message, audioPlayer, songPitch, mic, mu,
                   handlers, ui, sessions, device, call, ret>>

\* a.mu.Unlock()
MicLoopUnlock(s) ==
    /\ ~crashed /\ g[s].pc = "ml_unlock"
    /\ mu' = MuFree
    /\ g' = [g EXCEPT ![s].pc = "ml_top", ![s].pos = 0]
    /\ UNCHANGED <<state, mode, message, audioPlayer, songPitch, userPitch, mic,
                   handlers, ui, sessions, crashed, device, call, ret>>

micLoop(s) ==
    \/ MicLoopNilCheck(s) \/ MicLoopIsDone(s) \/ MicLoopRead(s)
    \/ MicLoopDevRead(s) \/ MicLoopReadDone(s) \/ MicLoopState(s)
    \/ MicLoopDetect(s) \/ MicLoopLock(s) \/ MicLoopCheckPlayer(s)
    \/ MicLoopIsPlaying(s) \/ MicLoopPosition(s) \/ MicLoopAppend(s)
    \/ MicLoopPrune(s) \/ MicLoopUnlock(s)

(* --------------------------- calibrateAndPlay -------------------------- *)
\* a.mic.Calibrate(2 * time.Second): the receiver is read once, at the call
CalibrateBegin(s) ==
    /\ ~crashed /\ g[s].pc = "cal_begin"
    /\ IF mic = 0 THEN Crash
       ELSE /\ g' = [g EXCEPT ![s].pc = "cal_loop", ![s].h = mic,
                              ![s].energies = <<>>, ![s].n = 0]
            /\ UNCHANGED <<state, mode, message, audioPlayer, songPitch, userPitch,
                           mic, mu, handlers, ui, sessions, crashed, device, call, ret>>


\* for time.Now().Before(endTime): the time is up
CalibrateTimeUp(s) ==
    /\ ~crashed /\ g[s].pc = "cal_loop"
    /\ GoTo(s, "cal_thr")
    /\ UNCHANGED <<state, mode, message, audioPlayer, songPitch, userPitch, mic,
                   mu, handlers, ui, sessions, crashed, device, call, ret>>

\* m.Read() in the loop: with no stream it returns nil at once and the energy
\* of the buffer as it is is recorded
CalibrateRead(s) ==
    /\ ~crashed /\ g[s].pc = "cal_loop"
    /\ g[s].n < MaxCalReads
    /\ IF handlers[g[s].h].Stream = "nil"
       THEN g' = [g EXCEPT ![s].n = @ + 1,
                           ![s].energies = Append(@, CalculateEnergy(handlers[g[s].h].Buffer))]
       ELSE g' = [g EXCEPT ![s].n = @ + 1, ![s].pc = "cal_devread"]
    /\ UNCHANGED <<state, mode, message, audioPlayer, songPitch, userPitch, mic,
                   mu, handlers, ui, sessions, crashed, device, call, ret>>

CalibrateDevRead(s) == g[s].pc = "cal_devread" /\ DevReadStart(s, "cal_inread")

\* the device read of the calibration loop returns: a block, whose energy is
\* recorded, or an error, which ends the loop
CalibrateReadDone(s) ==
    /\ ~crashed /\ g[s].pc = "cal_inread"
    /\ \/ /\ ~g[s].stale
          /\ \E b \in device :
                /\ handlers' = [handlers EXCEPT ![g[s].h].Buffer = b]
                /\ g' = [g EXCEPT ![s].pc = "cal_loop",
                                  ![s].energies = Append(@, CalculateEnergy(b))]
       \/ /\ g' = [g EXCEPT ![s].pc = "cal_thr", ![s].stale = FALSE]
          /\ UNCHANGED handlers
    /\ UNCHANGED <<state, mode, message, audioPlayer, songPitch, userPitch, mic,
                   mu, ui, sessions, crashed, device, call, ret>>

\* 'for _, e := range energies { if e > maxE { maxE = e } }' from entry i on
RECURSIVE MaxEnergy(_, _, _)
MaxEnergy(energies, i, maxE) ==
    IF i > Len(energies) THEN maxE
    ELSE The({MaxEnergy(energies, i + 1, m) :
                  m \in {IF FGt(energies[i], maxE) THEN energies[i] ELSE maxE}})

\* maxE * 1.5, with maxE the greatest of the energies, from 0.0
CalibrateThreshold(energies) ==
    The({FMul(maxE, factor) :
             maxE \in {MaxEnergy(energies, 1, FZero)}, factor \in {ToFloat64(Rat(3, 2))}})

\* m.Threshold = maxE * 1.5; return
CalibrateEnd(s) ==
    /\ ~crashed /\ g[s].pc = "cal_thr"
    /\ handlers' = [handlers EXCEPT ![g[s].h].Threshold = CalibrateThreshold(g[s].energies)]
    /\ g' = [g EXCEPT ![s].pc = "cal_state", ![s].h = 0, ![s].energies = <<>>, ![s].n = 0]
    /\ UNCHANGED <<state, mode, message, audioPlayer, songPitch, userPitch, mic,
                   mu, ui, sessions, crashed, device, call, ret>>

\* a.mu.Lock(); a.state = StatePlaying, and then
\* a.message = "Loading Song..."; a.mu.Unlock()
CalSetPlaying(s) ==
    /\ ~crashed
    /\ \/ /\ g[s].pc = "cal_state"
          /\ mu = MuFree
          /\ mu' = MuG(s)
          /\ state' = "Playing"
          /\ GoTo(s, "cal_message")
          /\ UNCHANGED message
       \/ /\ g[s].pc = "cal_message"
          /\ message' = "Loading"
          /\ mu' = MuFree
          /\ GoTo(s, "cal_load")
          /\ UNCHANGED state
    /\ UNCHANGED <<mode, audioPlayer, songPitch, userPitch, mic, handlers, ui,
                   sessions, crashed, device, call, ret>>

\* audio.LoadAndAnalyzeSong(a.songDir, a.mode, ...): a.mode is read at the call
CalLoadBegin(s) ==
    /\ ~crashed /\ g[s].pc = "cal_load"
    /\ g' = [g EXCEPT ![s].pc = "cal_loading", ![s].md = mode]
    /\ UNCHANGED <<state, mode, message, audioPlayer, songPitch, userPitch, mic,
                   mu, handlers, ui, sessions, crashed, device, call, ret>>

\* the onMessage callback without its a.mu.Unlock()
CalLoadMessage_HoldLock(s) ==
    /\ ~crashed
    /\ g[s].md \in {"Singing", "Instrumental"}
    /\ \/ /\ g[s].pc = "cal_loading"
          /\ mu = MuFree
          /\ mu' = MuG(s)
          /\ GoTo(s, "cal_msg")
          /\ UNCHANGED message
       \/ /\ g[s].pc = "cal_msg"
          /\ message' = "Separating"
          /\ GoTo(s, "cal_separating")
          /\ UNCHANGED mu
    /\ UNCHANGED <<state, mode, audioPlayer, songPitch, userPitch, mic,
                   handlers, ui, sessions, crashed, device, call, ret>>

\* LoadAndAnalyzeSong calls onMessage before it runs the separation: the
\* callback's a.mu.Lock(), and then a.message = msg; a.mu.Unlock()
CalLoadMessage(s) ==
    /\ ~crashed
    /\ g[s].md \in {"Singing", "Instrumental"}
    /\ \/ /\ g[s].pc = "cal_loading"
          /\ mu = MuFree
          /\ mu' = MuG(s)
          /\ GoTo(s, "cal_msg")
          /\ UNCHANGED message
       \/ /\ g[s].pc = "cal_msg"
          /\ message' = "Separating"
          /\ mu' = MuFree
          /\ GoTo(s, "cal_separating")
    /\ UNCHANGED <<state, mode, audioPlayer, songPitch, userPitch, mic,
                   handlers, ui, sessions, crashed, device, call, ret>>

\* LoadAndAnalyzeSong returns an error
CalLoadFail(s) ==
    /\ ~crashed /\ g[s].pc \in {"cal_loading", "cal_separating"}
    /\ GoTo(s, "cal_err")
    /\ UNCHANGED <<state, mode, message, audioPlayer, songPitch, userPitch, mic,
                   mu, handlers, ui, sessions, crashed, device, call, ret>>

\* LoadAndAnalyzeSong returns a result
CalLoadOk(s) ==
    /\ ~crashed /\ g[s].pc \in {"cal_loading", "cal_separating"}
    /\ GoTo(s, "cal_install")
    /\ UNCHANGED <<state, mode, message, audioPlayer, songPitch, userPitch, mic,
                   mu, handlers, ui, sessions, crashed, device, call, ret>>

\* if err != nil { Lock; a.message = "Error: ..."; Unlock; return }
CalLoadError(s) ==
    /\ ~crashed /\ g[s].pc = "cal_err"
    /\ mu = MuFree
    /\ message' = "ErrorLoad"
    /\ g' = [g EXCEPT ![s].pc = "done", ![s].md = ""]
    /\ UNCHANGED <<state, mode, audioPlayer, songPitch, userPitch, mic, mu,
                   handlers, ui, sessions, crashed, device, call, ret>>

\* a.mu.Lock(); a.audioPlayer = result.Player (nil for ModeNoAudio), then
\* a.songPitch = result.SongPitch, then a.message = "".  A handler of the UI
\* thread that has tested a.audioPlayer and reads it again sees the store or not.
CalInstall(s) ==
    /\ ~crashed
    /\ \/ /\ g[s].pc = "cal_install"
          /\ mu = MuFree
          /\ mu' = MuG(s)
          /\ audioPlayer' = IF g[s].md = "NoAudio" THEN NoPlayer ELSE NewPlayer
          /\ g' = [g EXCEPT ![s].pc = "cal_install2", ![s].md = ""]
          /\ ui' = IF ui.pc \in ReadingPlayer THEN [ui EXCEPT !.p = 1] ELSE ui
          /\ UNCHANGED <<songPitch, message>>
       \/ /\ g[s].pc = "cal_install2"
          /\ songPitch' = "track"
          /\ GoTo(s, "cal_install3")
          /\ UNCHANGED <<audioPlayer, message, mu, ui>>
       \/ /\ g[s].pc = "cal_install3"
          /\ message' = ""
          /\ GoTo(s, "cal_play")
          /\ UNCHANGED <<audioPlayer, songPitch, mu, ui>>
    /\ UNCHANGED <<state, mode, userPitch, mic, handlers, sessions, crashed, device, call, ret>>

\* if a.audioPlayer != nil {
CalCheckPlayer(s) ==
    /\ ~crashed /\ g[s].pc = "cal_play"
    /\ GoTo(s, IF audioPlayer.nil THEN "cal_unlock" ELSE "cal_play2")
    /\ UNCHANGED <<state, mode, message, audioPlayer, songPitch, userPitch, mic,
                   mu, handlers, ui, sessions, crashed, device, call, ret>>

\* a.audioPlayer.Play() }
CalPlay(s) ==
    /\ ~crashed /\ g[s].pc = "cal_play2"
    /\ IF audioPlayer.nil THEN Crash
       ELSE /\ audioPlayer' = [audioPlayer EXCEPT !.playing = ~audioPlayer.closed]
            /\ GoTo(s, "cal_unlock")
            /\ UNCHANGED <<state, mode, message, songPitch, userPitch, mic, mu,
                           handlers, ui, sessions, crashed, device, call, ret>>

\* a.mu.Unlock(); go a.micLoop()
CalUnlockGo(s) ==
    /\ ~crashed /\ g[s].pc = "cal_unlock"
    /\ mu' = MuFree
    /\ GoTo(s, "ml_top")
    /\ UNCHANGED <<state, mode, message, audioPlayer, songPitch, userPitch, mic,
                   handlers, ui, sessions, crashed, device, call, ret>>

calibrateAndPlay(s) ==
    \/ CalibrateBegin(s) \/ CalibrateTimeUp(s) \/ CalibrateRead(s)
    \/ CalibrateDevRead(s) \/ CalibrateReadDone(s) \/ CalibrateEnd(s)
    \/ CalSetPlaying(s) \/ CalLoadBegin(s) \/ CalLoadMessage(s)
    \/ CalLoadFail(s) \/ CalLoadOk(s) \/ CalLoadError(s)
    \/ CalInstall(s) \/ CalCheckPlayer(s) \/ CalPlay(s) \/ CalUnlockGo(s)

(* ----------------------------- the UI thread --------------------------- *)
\* Update on the start screen: a click on a mode button calls startGame(m),
\* which begins with a.cleanup()
StartGameBegin(m) ==
    /\ ~crashed /\ ui.pc = "idle"
    /\ state = "StartScreen"
    /\ sessions < MaxSessions
    /\ ui' = [UIIdle EXCEPT !.pc = "cl_mic", !.m = m, !.ret = "sg"]
    /\ UNCHANGED <<state, mode, message, audioPlayer, songPitch, userPitch, mic,
                   mu, handlers, g, sessions, crashed, device, call, ret>>

\* Update while calibrating or playing, Escape: exitToMenu begins with a.cleanup()
ExitToMenuBegin ==
    /\ ~crashed /\ ui.pc = "idle"
    /\ state \in {"Playing", "Calibrating"}
    /\ ui' = [UIIdle EXCEPT !.pc = "cl_mic", !.ret = "exit"]
    /\ UNCHANGED <<state, mode, message, audioPlayer, songPitch, userPitch, mic,
                   mu, handlers, g, sessions, crashed, device, call, ret>>

\* cleanup: if a.mic != nil { a.mic.Stop() ... ; Stop: if m.Done != nil { close(m.Done)
CleanupStopClose ==
    /\ ~crashed /\ ui.pc = "cl_mic"
    /\ IF mic = 0
       THEN /\ ui' = [ui EXCEPT !.pc = "cl_player"]
            /\ UNCHANGED <<handlers, crashed, device, call, ret>>
       ELSE IF handlers[mic].Done = "closed"
       THEN /\ crashed' = TRUE
            /\ UNCHANGED <<handlers, ui>>
       ELSE /\ handlers' = [handlers EXCEPT ![mic].Done =
                               IF @ = "open" THEN "closed" ELSE @]
            /\ ui' = [ui EXCEPT !.pc = IF handlers[mic].Done = "open"
                                       THEN "stop_sleep" ELSE "stop_stream"]
            /\ UNCHANGED crashed
    /\ UNCHANGED <<state, mode, message, audioPlayer, songPitch, userPitch, mic,
                   mu, g, sessions, device, call, ret>>

\* Stop: time.Sleep(50 * time.Millisecond) }
StopSleep ==
    /\ ~crashed /\ ui.pc = "stop_sleep"
    /\ ui' = [ui EXCEPT !.pc = "stop_stream"]
    /\ UNCHANGED <<state, mode, message, audioPlayer, songPitch, userPitch, mic,
                   mu, handlers, g, sessions, crashed, device, call, ret>>

\* Stop: if m.Stream != nil { m.Stream.Stop(); m.Stream.Close(); m.Stream = nil }
StopStream ==
    /\ ~crashed /\ ui.pc = "stop_stream"
    /\ handlers' = [handlers EXCEPT ![mic].Stream = "nil"]
    /\ ui' = [ui EXCEPT !.pc = "stop_done"]
    /\ UNCHANGED <<state, mode, message, audioPlayer, songPitch, userPitch, mic,
                   mu, g, sessions, crashed, device, call, ret>>

\* Stop: m.Done = nil
StopDone ==
    /\ ~crashed /\ ui.pc = "stop_done"
    /\ handlers' = [handlers EXCEPT ![mic].Done = "nil"]
    /\ ui' = [ui EXCEPT !.pc = "cl_micnil"]
    /\ UNCHANGED <<state, mode, message, audioPlayer, songPitch, userPitch, mic,
                   mu, g, sessions, crashed, device, call, ret>>

\* cleanup: a.mic = nil }
CleanupMicNil ==
    /\ ~crashed /\ ui.pc = "cl_micnil"
    /\ mic' = 0
    /\ ui' = [ui EXCEPT !.pc = "cl_player"]
    /\ UNCHANGED <<state, mode, message, audioPlayer, songPitch, userPitch, mu,
                   handlers, g, sessions, crashed, device, call, ret>>

\* A read of a.audioPlayer by the UI thread later in a handler, with no lock
\* held.  The goroutine's store (calibrateAndPlay, under a.mu) races with it:
\* the read gives the field as it is now ("now"), or, when the field has been
\* stored to since the handler's nil check, the player seen there ("seen"),
\* which the App no longer holds.
PlayerViews == IF ui.p = 1 THEN {"now", "seen"} ELSE {"now"}

\* cleanup: if a.audioPlayer != nil {
CleanupPlayer ==
    /\ ~crashed /\ ui.pc = "cl_player"
    /\ ui' = [ui EXCEPT !.pc = IF audioPlayer.nil THEN "cl_rest" ELSE "cl_pause"]
    /\ UNCHANGED <<state, mode, message, audioPlayer, songPitch, userPitch, mic,
                   mu, handlers, g, sessions, crashed, device, call, ret>>

\* cleanup: a.audioPlayer.Pause()
CleanupPause ==
    /\ ~crashed /\ ui.pc = "cl_pause"
    /\ \E v \in PlayerViews :
          IF v = "now" /\ audioPlayer.nil THEN Crash
          ELSE /\ audioPlayer' = IF v = "now" THEN [audioPlayer EXCEPT !.playing = FALSE]
                                 ELSE audioPlayer
               /\ ui' = [ui EXCEPT !.pc = "cl_close"]
               /\ UNCHANGED <<state, mode, message, songPitch, userPitch, mic, mu,
                              handlers, g, sessions, crashed, device, call, ret>>

\* cleanup: a.audioPlayer.Close(): the player stops playing
CleanupClose ==
    /\ ~crashed /\ ui.pc = "cl_close"
    /\ \E v \in PlayerViews :
          IF v = "now" /\ audioPlayer.nil THEN Crash
          ELSE /\ audioPlayer' = IF v = "now"
                                 THEN [audioPlayer EXCEPT !.playing = FALSE, !.closed = TRUE]
                                 ELSE audioPlayer
               /\ ui' = [ui EXCEPT !.pc = "cl_playernil", !.p = 0]
               /\ UNCHANGED <<state, mode, message, songPitch, userPitch,
                              mic, mu, handlers, g, sessions, crashed, device, call, ret>>

\* cleanup: a.audioPlayer = nil }
CleanupPlayerNil ==
    /\ ~crashed /\ ui.pc = "cl_playernil"
    /\ audioPlayer' = NoPlayer
    /\ ui' = [ui EXCEPT !.pc = "cl_rest", !.p = 0]
    /\ UNCHANGED <<state, mode, message, songPitch, userPitch, mic, mu, handlers,
                   g, sessions, crashed, device, call, ret>>

\* cleanup: a.songPitch = nil, then a.userPitch = make([]float64, 0), then
\* a.message = ""
CleanupRest ==
    /\ ~crashed
    /\ \/ /\ ui.pc = "cl_rest"
          /\ songPitch' = "nil"
          /\ ui' = [ui EXCEPT !.pc = "cl_userpitch"]
          /\ UNCHANGED <<userPitch, message>>
       \/ /\ ui.pc = "cl_userpitch"
          /\ userPitch' = <<>>
          /\ ui' = [ui EXCEPT !.pc = "cl_message"]
          /\ UNCHANGED <<songPitch, message>>
       \/ /\ ui.pc = "cl_message"
          /\ message' = ""
          /\ ui' = [ui EXCEPT !.pc = IF ui.ret = "sg" THEN "sg_init" ELSE "exit_state"]
          /\ UNCHANGED <<songPitch, userPitch>>
    /\ UNCHANGED <<state, mode, audioPlayer, mic, mu, handlers, g, sessions,
                   crashed, device, call, ret>>

cleanup ==
    \/ CleanupStopClose \/ StopSleep \/ StopStream \/ StopDone
    \/ CleanupMicNil \/ CleanupPlayer \/ CleanupPause \/ CleanupClose
    \/ CleanupPlayerNil \/ CleanupRest

\* exitToMenu: a.state = StateStartScreen
ExitToMenuEnd ==
    /\ ~crashed /\ ui.pc = "exit_state"
    /\ state' = "StartScreen"
    /\ ui' = UIIdle
    /\ UNCHANGED <<mode, message, audioPlayer, songPitch, userPitch, mic, mu,
                   handlers, g, sessions, crashed, device, call, ret>>

\* startGame: a.mode = m, then a.state = StateCalibrating, then a.message =
\* "Calibrating background noise...", then a.userPitch = make([]float64, 0),
\* then a.mic = audio.NewMicHandler()
StartGameInit ==
    /\ ~crashed
    /\ \/ /\ ui.pc = "sg_init"
          /\ mode' = ui.m
          /\ ui' = [ui EXCEPT !.pc = "sg_state"]
          /\ UNCHANGED <<state, message, userPitch, sessions, mic, handlers>>
       \/ /\ ui.pc = "sg_state"
          /\ state' = "Calibrating"
          /\ ui' = [ui EXCEPT !.pc = "sg_message"]
          /\ UNCHANGED <<mode, message, userPitch, sessions, mic, handlers>>
       \/ /\ ui.pc = "sg_message"
          /\ message' = "Calibrating"
          /\ ui' = [ui EXCEPT !.pc = "sg_userpitch"]
          /\ UNCHANGED <<mode, state, userPitch, sessions, mic, handlers>>
       \/ /\ ui.pc = "sg_userpitch"
          /\ userPitch' = <<>>
          /\ ui' = [ui EXCEPT !.pc = "sg_mic"]
          /\ UNCHANGED <<mode, state, message, sessions, mic, handlers>>
       \/ /\ ui.pc = "sg_mic"
          /\ sessions' = sessions + 1
          /\ mic' = sessions + 1
          /\ handlers' = [handlers EXCEPT ![sessions + 1] = NewMicHandler]
          /\ ui' = [ui EXCEPT !.pc = "sg_start"]
          /\ UNCHANGED <<mode, state, message, userPitch>>
    /\ UNCHANGED <<audioPlayer, songPitch, mu, g, crashed, device, call, ret>>

\* startGame: a.mic.Start(), one attempt of its loop: m.Stream, err =
\* portaudio.OpenDefaultStream(...); if err != nil { continue }
StartOpen ==
    /\ ~crashed /\ ui.pc = "sg_start"
    /\ \/ /\ handlers' = [handlers EXCEPT ![mic].Stream = "open"]
          /\ ui' = [ui EXCEPT !.pc = "sg_stream"]
       \/ /\ handlers' = [handlers EXCEPT ![mic].Stream = "nil"]
          /\ ui' = [ui EXCEPT !.n = @ + 1,
                              !.pc = IF ui.n + 1 < MaxRetries THEN "sg_sleep" ELSE "sg_fail"]
    /\ UNCHANGED <<state, mode, message, audioPlayer, songPitch, userPitch, mic,
                   mu, g, sessions, crashed, device, call, ret>>

\* Start: if err = m.Stream.Start(); err != nil { m.Stream.Close();
\* m.Stream = nil; continue }
StartStreamFail ==
    /\ ~crashed /\ ui.pc = "sg_stream"
    /\ handlers' = [handlers EXCEPT ![mic].Stream = "nil"]
    /\ ui' = [ui EXCEPT !.n = @ + 1,
                        !.pc = IF ui.n + 1 < MaxRetries THEN "sg_sleep" ELSE "sg_fail"]
    /\ UNCHANGED <<state, mode, message, audioPlayer, songPitch, userPitch, mic,
                   mu, g, sessions, crashed, device, call, ret>>

\* Start: if attempt > 0 { time.Sleep(100*(1<<attempt) ms) }
StartSleep ==
    /\ ~crashed /\ ui.pc = "sg_sleep"
    /\ ui' = [ui EXCEPT !.pc = "sg_start"]
    /\ UNCHANGED <<state, mode, message, audioPlayer, songPitch, userPitch, mic,
                   mu, handlers, g, sessions, crashed, device, call, ret>>

\* Start: m.Stream.Start() succeeds; m.Done = make(chan struct{}); return nil
StartGameMicOk ==
    /\ ~crashed /\ ui.pc = "sg_stream"
    /\ handlers' = [handlers EXCEPT ![mic].Done = "open"]
    /\ ui' = [ui EXCEPT !.pc = "sg_go", !.n = 0]
    /\ UNCHANGED <<state, mode, message, audioPlayer, songPitch, userPitch, mic,
                   mu, g, sessions, crashed, device, call, ret>>

\* a.mic.Start() has failed maxRetries times and returns the error:
\* a.message = "Error: ...", then a.state = StateStartScreen; return
StartGameMicFail ==
    /\ ~crashed
    /\ \/ /\ ui.pc = "sg_fail"
          /\ message' = "ErrorMic"
          /\ ui' = [ui EXCEPT !.pc = "sg_fail2"]
          /\ UNCHANGED state
       \/ /\ ui.pc = "sg_fail2"
          /\ state' = "StartScreen"
          /\ ui' = UIIdle
          /\ UNCHANGED message
    /\ UNCHANGED <<mode, audioPlayer, songPitch, userPitch, mic, mu, handlers, g,
                   sessions, crashed, device, call, ret>>

\* go a.calibrateAndPlay()
StartGameGo ==
    /\ ~crashed /\ ui.pc = "sg_go"
    /\ g' = [g EXCEPT ![mic].pc = "cal_begin"]
    /\ ui' = UIIdle
    /\ UNCHANGED <<state, mode, message, audioPlayer, songPitch, userPitch, mic,
                   mu, handlers, sessions, crashed, device, call, ret>>

startGame ==
    \/ \E m \in SessionModes : StartGameBegin(m)
    \/ StartGameInit \/ StartOpen \/ StartStreamFail \/ StartSleep
    \/ StartGameMicOk \/ StartGameMicFail \/ StartGameGo

exitToMenu == ExitToMenuBegin \/ ExitToMenuEnd

\* handlePlayingInput, Space: if a.audioPlayer != nil {
TogglePlay ==
    /\ ~crashed /\ ui.pc = "idle"
    /\ state \in {"Playing", "Calibrating"}
    /\ ~audioPlayer.nil /\ audioPlayer.keys < MaxKeys
    /\ ui' = [ui EXCEPT !.pc = "tp_isplaying"]
    /\ UNCHANGED <<state, mode, message, audioPlayer, songPitch, userPitch, mic,
                   mu, handlers, g, sessions, crashed, device, call, ret>>

\* if a.audioPlayer.IsPlaying() {: on the player seen before, no longer the
\* App's, either answer
TogglePlayIsPlaying ==
    /\ ~crashed /\ ui.pc = "tp_isplaying"
    /\ \E v \in PlayerViews :
          IF v = "now" /\ audioPlayer.nil THEN Crash
          ELSE /\ \E playing \in (IF v = "now" THEN {audioPlayer.playing} ELSE BOOLEAN) :
                     ui' = [ui EXCEPT !.pc = IF playing THEN "tp_pause" ELSE "tp_play"]
               /\ UNCHANGED <<state, mode, message, audioPlayer, songPitch, userPitch,
                              mic, mu, handlers, g, sessions, crashed, device, call, ret>>

\* a.audioPlayer.Pause() } else { a.audioPlayer.Play() }
TogglePlayAct ==
    /\ ~crashed /\ ui.pc \in {"tp_pause", "tp_play"}
    /\ \E v \in PlayerViews :
          IF v = "now" /\ audioPlayer.nil THEN Crash
          ELSE /\ audioPlayer' = IF v = "now"
                                 THEN [audioPlayer EXCEPT
                                          !.playing = (ui.pc = "tp_play" /\ ~audioPlayer.closed),
                                          !.keys = @ + 1]
                                 ELSE audioPlayer
               /\ ui' = UIIdle
               /\ UNCHANGED <<state, mode, message, songPitch, userPitch, mic, mu,
                              handlers, g, sessions, crashed, device, call, ret>>

\* the positions a player can be at
Positions == {k * SeekMs : k \in 0..(MaxPosMs \div SeekMs)}

\* handlePlayingInput, Left and Right: if a.audioPlayer != nil {
SeekBegin(key) ==
    /\ ~crashed /\ ui.pc = "idle"
    /\ state \in {"Playing", "Calibrating"}
    /\ ~audioPlayer.nil /\ audioPlayer.keys < MaxKeys
    /\ ui' = [ui EXCEPT !.pc = "seek_pos", !.m = key]
    /\ UNCHANGED <<state, mode, message, audioPlayer, songPitch, userPitch, mic,
                   mu, handlers, g, sessions, crashed, device, call, ret>>

\* pos := a.audioPlayer.Position(); Left: newPos := pos - 10*time.Second;
\* if newPos < 0 { newPos = 0 }; Right: pos + 10*time.Second, the model's track
\* ending at MaxPosMs.  The player seen before, no longer the App's, can be at
\* any position.
SeekPosition ==
    /\ ~crashed /\ ui.pc = "seek_pos"
    /\ \E v \in PlayerViews :
          IF v = "now" /\ audioPlayer.nil THEN Crash
          ELSE /\ \E pos \in (IF v = "now" THEN {audioPlayer.pos} ELSE Positions) :
                     ui' = [ui EXCEPT !.pc = "seek_set",
                                      !.n = IF ui.m = "Right"
                                            THEN (IF pos + SeekMs > MaxPosMs THEN MaxPosMs
                                                  ELSE pos + SeekMs)
                                            ELSE IF pos - SeekMs < 0 THEN 0
                                            ELSE pos - SeekMs]
               /\ UNCHANGED <<state, mode, message, audioPlayer, songPitch, userPitch,
                              mic, mu, handlers, g, sessions, crashed, device, call, ret>>

\* a.audioPlayer.SetPosition(newPos) }
SeekSet ==
    /\ ~crashed /\ ui.pc = "seek_set"
    /\ \E v \in PlayerViews :
          IF v = "now" /\ audioPlayer.nil THEN Crash
          ELSE /\ audioPlayer' = IF v = "now"
                                 THEN [audioPlayer EXCEPT !.pos = ui.n, !.keys = @ + 1]
                                 ELSE audioPlayer
               /\ ui' = UIIdle
               /\ UNCHANGED <<state, mode, message, songPitch, userPitch, mic, mu,
                              handlers, g, sessions, crashed, device, call, ret>>

\* handlePlayingInput, Left: rewind 10 seconds, not before 0
Rewind == SeekBegin("Left")

\* handlePlayingInput, Right: forward 10 seconds (the model's player ends at MaxPosMs)
Forward == audioPlayer.pos + SeekMs <= MaxPosMs /\ SeekBegin("Right")

\* handlePlayingInput: Space, Left, Right, Escape
handlePlayingInput ==
    \/ TogglePlay \/ TogglePlayIsPlaying \/ TogglePlayAct
    \/ Rewind \/ Forward \/ SeekPosition \/ SeekSet
    \/ exitToMenu

\* Draw: if a.state is StartScreen or Calibrating, draw that screen and return;
\* else a.mu.Lock()
DrawBegin ==
    /\ ~crashed /\ ui.pc = "idle"
    /\ state = "Playing"
    /\ ui' = [ui EXCEPT !.pc = "draw_lock"]
    /\ UNCHANGED <<state, mode, message, audioPlayer, songPitch, userPitch, mic,
                   mu, handlers, g, sessions, crashed, device, call, ret>>

DrawLock ==
    /\ ~crashed /\ ui.pc = "draw_lock"
    /\ mu = MuFree
    /\ mu' = MuUI
    /\ ui' = [ui EXCEPT !.pc = "draw_locked"]
    /\ UNCHANGED <<state, mode, message, audioPlayer, songPitch, userPitch, mic,
                   handlers, g, sessions, crashed, device, call, ret>>

\* the body of Draw reads message, mode, audioPlayer, mic.Pitch, songPitch and
\* userPitch; the deferred a.mu.Unlock()
DrawEnd ==
    /\ ~crashed /\ ui.pc = "draw_locked"
    /\ mu' = MuFree
    /\ ui' = UIIdle
    /\ UNCHANGED <<state, mode, message, audioPlayer, songPitch, userPitch, mic,
                   handlers, g, sessions, crashed, device, call, ret>>

Draw == DrawBegin \/ DrawLock \/ DrawEnd

\* the playback clock: the position of a playing player advances
Tick ==
    /\ ~crashed
    /\ ~audioPlayer.nil /\ audioPlayer.playing
    /\ audioPlayer.pos + TickMs <= MaxPosMs
    /\ audioPlayer' = [audioPlayer EXCEPT !.pos = @ + TickMs]
    /\ UNCHANGED <<state, mode, message, songPitch, userPitch, mic, mu, handlers,
                   ui, g, sessions, crashed, device, call, ret>>

\* The pairs of the history that a prune at the player's position would keep
\* if they were the first: those not older than the retention window.
RecentPairs ==
    Cardinality({k \in 1..(Len(userPitch) \div 2) :
                    userPitch[2 * k - 1].n >= audioPlayer.pos - MaxUserPitchHistoryMs})

\* The bound of a model on the history: the goroutine of session s does not
\* begin a capture while the history holds maxPairs recent pairs.
CaptureRoom(s, maxPairs) ==
    (g[s].pc = "ml_state" /\ state = "Playing") => RecentPairs < maxPairs

\* The session model: every thread of the App and the playback clock, with a
\* silent input device.
Next ==
    \/ startGame \/ handlePlayingInput \/ cleanup \/ Draw \/ Tick
    \/ \E s \in Sessions :
          calibrateAndPlay(s) \/ (CaptureRoom(s, MaxHistPairs) /\ micLoop(s))

Spec == Init /\ [][Next]_appVars

\* the steps the UI thread takes without a new input event: the rest of a
\* cleanup, exitToMenu or startGame in progress, and a Draw in progress
UIStep ==
    \/ cleanup \/ ExitToMenuEnd
    \/ StartGameInit \/ StartOpen \/ StartStreamFail \/ StartSleep
    \/ StartGameMicOk \/ StartGameMicFail \/ StartGameGo
    \/ TogglePlayIsPlaying \/ TogglePlayAct \/ SeekPosition \/ SeekSet
    \/ DrawLock \/ DrawEnd

\* Every thread scheduled: each goroutine that can take a step eventually
\* takes one (a blocking device read returns, the lock is released), and the
\* UI thread finishes the handler it is in.  No input event is ever forced.
Fairness ==
    /\ WF_appVars(UIStep)
    /\ \A s \in Sessions :
          WF_appVars(calibrateAndPlay(s) \/ (CaptureRoom(s, MaxHistPairs) /\ micLoop(s)))

\* The first session up and capturing: the state in which calibrateAndPlay
\* launches micLoop, the stream open, calibrated on silence, the player
\* installed and started by Play.  Then whatever the user does: Space, Escape,
\* and a new session.
InitLive ==
    /\ state = "Playing"
    /\ mode = "FullMix"
    /\ message = ""
    /\ audioPlayer = [NewPlayer EXCEPT !.playing = TRUE]
    /\ songPitch = "track"
    /\ userPitch = <<>>
    /\ mic = 1
    /\ mu = MuFree
    /\ handlers = [h \in Sessions |->
                     IF h = 1 THEN [NewMicHandler EXCEPT !.Stream = "open", !.Done = "open"]
                     ELSE NewMicHandler]
    /\ ui = UIIdle
    /\ g = [s \in Sessions |-> IF s = 1 THEN [GNone EXCEPT !.pc = "ml_top"] ELSE GNone]
    /\ sessions = 1
    /\ crashed = FALSE
    /\ device = {Silence}
    /\ call = NoCall
    /\ ret = NoRet

NextLive ==
    \/ startGame \/ exitToMenu \/ cleanup
    \/ TogglePlay \/ TogglePlayIsPlaying \/ TogglePlayAct
    \/ \E s \in Sessions :
          calibrateAndPlay(s) \/ (CaptureRoom(s, MaxHistPairs) /\ micLoop(s))

SpecLive == InitLive /\ [][NextLive]_appVars /\ Fairness

(* ----------------------- one session, playing -------------------------- *)
\* The capture model: the state startGame and calibrateAndPlay leave behind
\* (stream open, calibrated on silence, player installed and started, micLoop
\* launched), then the capture loop, the playback clock and the playback
\* controls of handlePlayingInput.
InitCapture ==
    /\ state = "Playing"
    /\ mode = "FullMix"
    /\ message = ""
    /\ \E pos \in {0, SeekMs} : audioPlayer = [NewPlayer EXCEPT !.playing = TRUE, !.pos = pos]
    /\ songPitch = "track"
    /\ userPitch = <<>>
    /\ mic = 1
    /\ mu = MuFree
    /\ handlers = [h \in Sessions |->
                     IF h = 1 THEN [NewMicHandler EXCEPT !.Stream = "open", !.Done = "open"]
                     ELSE NewMicHandler]
    /\ ui = UIIdle
    /\ g = [s \in Sessions |-> IF s = 1 THEN [GNone EXCEPT !.pc = "ml_top"] ELSE GNone]
    /\ sessions = 1
    /\ crashed = FALSE
    /\ device = {Tone}
    /\ call = NoCall
    /\ ret = NoRet

NextCapture ==
    \/ CaptureRoom(1, MaxCapturePairs) /\ micLoop(1)
    \/ handlePlayingInput \/ cleanup \/ Tick

SpecCapture == InitCapture /\ [][NextCapture]_appVars

(* ------------------------------ note names ------------------------------ *)
\* the constants of math.Log: Ln2Hi = 6.93147180369123816490e-01,
\* Ln2Lo = 1.90821492927058770002e-10, L1 = 6.666666666666735130e-01,
\* L2 = 3.999999999940941908e-01, L3 = 2.857142874366239149e-01,
\* L4 = 2.222219843214978396e-01, L5 = 1.818357216161805012e-01,
\* L6 = 1.531383769920937332e-01, L7 = 1.479819860511658591e-01; and
\* Sqrt2/2 and 1/Ln2 as float64
Ln2Hi == [neg |-> FALSE, hi |-> 93032639, lo |-> 48234496, e |-> -53]
Ln2Lo == [neg |-> FALSE, hi |-> 110001101, lo |-> 24722550, e |-> -85]
L1 == [neg |-> FALSE, hi |-> 89478485, lo |-> 22369683, e |-> -53]
L2 == [neg |-> FALSE, hi |-> 107374182, lo |-> 26737156, e |-> -54]
L3 == [neg |-> FALSE, hi |-> 76695845, lo |-> 2265945, e |-> -54]
L4 == [neg |-> FALSE, hi |-> 119304519, lo |-> 26114223, e |-> -55]
L5 == [neg |-> FALSE, hi |-> 97622309, lo |-> 46859230, e |-> -55]
L6 == [neg |-> FALSE, hi |-> 82215540, lo |-> 7915167, e |-> -55]
L7 == [neg |-> FALSE, hi |-> 79447223, lo |-> 54415940, e |-> -55]
HalfSqrt2 == [neg |-> FALSE, hi |-> 94906265, lo |-> 41892813, e |-> -53]
InvLn2 == [neg |-> FALSE, hi |-> 96817625, lo |-> 19628798, e |-> -52]

\* math.Frexp(x) of a number x > 0: x = frac * 2^exp with 1/2 <= frac < 1
Frexp(x) == [frac |-> [x EXCEPT !.e = -53], exp |-> x.e + 53]

\* the end of math.Log, 'R := t1 + t2; hfsq := 0.5 * f * f;
\* return k*Ln2Hi - ((hfsq - (s*(hfsq+R) + k*Ln2Lo)) - f)', with
\* t1 = s2*(L1+s4*(L3+s4*(L5+s4*L7))) and t2 = s4*(L2+s4*(L4+s4*L6))
LogSum(f, k, s, s2, s4) ==
    The({FSub(FMul(k, Ln2Hi),
              FSub(FSub(hfsq, FAdd(FMul(s, FAdd(hfsq, R)), FMul(k, Ln2Lo))), f)) :
            R \in {FAdd(FMul(s2, FAdd(L1, FMul(s4, FAdd(L3, FMul(s4,
                                 FAdd(L5, FMul(s4, L7))))))),
                        FMul(s4, FAdd(L2, FMul(s4, FAdd(L4, FMul(s4, L6))))))},
            hfsq \in {FMul(FScale(f, -1), f)}})

\* 's := f / (2 + f); s2 := s * s; s4 := s2 * s2' of math.Log
LogTerms(f, k) ==
    The({The({The({LogSum(f, k, s, s2, s4) : s4 \in {FMul(s2, s2)}}) :
                  s2 \in {FMul(s, s)}}) :
            s \in {FDiv(f, FAdd(FromInt(2), f))}})

\* math.Log(x) of a number x > 0: 'f1, ki := Frexp(x); if f1 < Sqrt2/2
\* { f1 *= 2; ki-- }; f := f1 - 1; k := float64(ki)', then the series
Log(x) ==
    IF FLt(Frexp(x).frac, HalfSqrt2)
    THEN The({LogTerms(f, FromInt(Frexp(x).exp - 1)) :
                 f \in {FSub(FScale(Frexp(x).frac, 1), FromInt(1))}})
    ELSE The({LogTerms(f, FromInt(Frexp(x).exp)) :
                 f \in {FSub(Frexp(x).frac, FromInt(1))}})

\* math.Log2(x) of a number x > 0: 'frac, exp := Frexp(x); if frac == 0.5
\* { return float64(exp - 1) }; return Log(frac)*(1/Ln2) + float64(exp)'
Log2(x) ==
    IF Frexp(x).frac = [neg |-> FALSE, hi |-> Limb, lo |-> 0, e |-> -53]
    THEN FromInt(Frexp(x).exp - 1)
    ELSE FAdd(FMul(Log(Frexp(x).frac), InvLn2), FromInt(Frexp(x).exp))

\* 69 + 12*math.Log2(freq/440.0) in float64, and 0 for a frequency <= 0
FreqToMidi(freq) ==
    IF FLe(freq, FZero) THEN FZero
    ELSE FAdd(FromInt(69), FMul(FromInt(12), Log2(FDivInt(freq, 440))))

notes == <<"C", "C#", "D", "D#", "E", "F", "F#", "G", "G#", "A", "A#", "B">>

\* [note, octave] of a frequency: 'midi := int(math.Round(FreqToMidi(freq)))'.
\* '%' and '/' of Go truncate toward zero, so a negative midi that is no
\* multiple of 12 indexes notes below 0, which panics
FreqToNote(freq) ==
    IF FLe(freq, FZero) THEN [note |-> "-", octave |-> 0]
    ELSE LET GoRem(a, b) == IF a >= 0 THEN a % b ELSE -((-a) % b)
             GoQuot(a, b) == IF a >= 0 THEN a \div b ELSE -((-a) \div b)
         IN  The({IF GoRem(midi, 12) < 0
                  THEN [note |-> "panic: index out of range", octave |-> 0]
                  ELSE [note |-> notes[GoRem(midi, 12) + 1],
                        octave |-> GoQuot(midi, 12) - 1] :
                     midi \in {FTrunc(Round(FreqToMidi(freq)))}})

(* ------------------------------ the renderer ---------------------------- *)
\* Position().Seconds() of a playback position of ms milliseconds:
\* 'sec := d / Second; nsec := d % Second; float64(sec) + float64(nsec)/1e9'
Seconds(ms) ==
    FAdd(FromInt(ms \div 1000), FDivInt(FromInt((ms % 1000) * 1000000), 1000000000))

\* OffsetX of NewPitchVisualizer(sw, sh): float64(sw) * 0.2
OffsetX == FMul(FromInt(ScreenW), ToFloat64(Rat(1, 5)))

\* DrawSongPitch: the indices i of 'p := data[i]' in the loop from startIdx
\* to endIdx, with 'stepSec := 0.01'
DrawSongPitch(data, currTime) ==
    The({(IF startIdx < 0 THEN 0 ELSE startIdx)
            ..(IF endIdx >= Len(data) THEN Len(data) - 1 ELSE endIdx) :
             startIdx \in {FTrunc(FDiv(FSub(currTime, FromInt(3)),
                                       ToFloat64(Rat(1, 100))))},
             endIdx \in {FTrunc(FDiv(FAdd(currTime, FromInt(5)),
                                     ToFloat64(Rat(1, 100))))}})

\* the loop of DrawUserPitch from the pair at i on: the reads
\* 'ref := songPitch[sIdx]', each as [i |-> the pair, sIdx |-> the index
\* read], with 'rawT := userPitch[i] / 1000.0; t := rawT - latencyOffset',
\* 'x := (t-currTime)*config.PixelsPerSec + v.OffsetX' and 'sIdx := int(t * 100)'
RECURSIVE DrawUserPitchFrom(_, _, _, _)
DrawUserPitchFrom(up, song, currTime, i) ==
    IF i >= Len(up) THEN {}
    ELSE The({The({IF FLe(up[i + 2], FromInt(10)) \/ FLt(x, FromInt(-50))
                   THEN DrawUserPitchFrom(up, song, currTime, i + 2)
                   ELSE IF FGt(x, FromInt(ScreenW)) THEN {}
                   ELSE (IF sIdx >= 0 /\ sIdx < Len(song)
                         THEN {[i |-> i, sIdx |-> sIdx]} ELSE {})
                        \cup DrawUserPitchFrom(up, song, currTime, i + 2) :
                      x \in {FAdd(FMul(FSub(t, currTime), FromInt(PixelsPerSec)),
                                  OffsetX)},
                      sIdx \in {FTrunc(FMul(t, FromInt(100)))}}) :
                 t \in {FSub(FDivInt(up[i + 1], 1000),
                             FDivInt(FromInt(AudioLatencyMs), 1000))}})

DrawUserPitch(up, song, currTime) ==
    DrawUserPitchFrom(up, song, currTime, 0)

\* one frame of drawPlayingMode at the playback position of ms milliseconds:
\* the indices at which a.songPitch is read for the song note,
\* 'sIdx := int(currTime * 100); if sIdx >= 0 && sIdx < len(a.songPitch)',
\* then those of DrawSongPitch and DrawUserPitch
drawPlayingMode(song, up, ms) ==
    The({[note |-> The({IF sIdx >= 0 /\ sIdx < Len(song) THEN {sIdx} ELSE {} :
                           sIdx \in {FTrunc(FMul(currTime, FromInt(100)))}}),
          song |-> DrawSongPitch(song, currTime),
          user |-> DrawUserPitch(up, song, currTime)] :
            currTime \in {Seconds(ms)}})

(* ------------------------- DetectPitch, called ------------------------- *)
\* the amplitudes -1, 0 and +1
SampleLevels == {-SampleDen, 0, SampleDen}

\* every block of at most MaxDetectLen samples
ShortBlocks ==
    UNION {[1..n -> SampleLevels] : n \in 0..MaxDetectLen}

\* a block of BlockLen samples, silent but for a first sample a and a sample b
\* lag places later
PulsePair(lag, a, b) ==
    [i \in 1..BlockLen |-> IF i = 1 THEN a ELSE IF i = 1 + lag THEN b ELSE 0]

PulseBlocks ==
    {PulsePair(lag, SampleDen, b) : lag \in 1..(BlockLen - 1), b \in {-SampleDen, SampleDen}}

\* the bounds analyzePitch and DetectPitchFromMic pass, and a band of two to
\* four samples per period for the short blocks
Bands ==
    {[minFreq |-> 40, maxFreq |-> 2000], [minFreq |-> 100, maxFreq |-> 1200],
     [minFreq |-> 85, maxFreq |-> 1100], [minFreq |-> 11025, maxFreq |-> 22050]}

\* a 10 ms block of samples with four pulses of 1.0, spacing samples apart
StepBlock(spacing) ==
    [j \in 1..StepFrames |->
        IF (j - 1) % spacing = 0 /\ (j - 1) \div spacing < 4 THEN SampleDen ELSE 0]

\* the 10 ms blocks, pitched at the shortest lag of each band and inside it
StepBlocks == {StepBlock(sp) : sp \in {22, 36, 40, 50}}

DetectCalls ==
    {[fn |-> "DetectPitch", samples |-> b, minFreq |-> f.minFreq, maxFreq |-> f.maxFreq] :
        b \in ShortBlocks \cup PulseBlocks, f \in Bands}
    \cup {[fn |-> "DetectPitch", samples |-> b, minFreq |-> f.minFreq,
           maxFreq |-> f.maxFreq] :
              b \in StepBlocks, f \in {f \in Bands : f.maxFreq <= 2000}}

InitApp ==
    /\ state = "StartScreen"
    /\ mode = "Singing"
    /\ message = ""
    /\ audioPlayer = NoPlayer
    /\ songPitch = "nil"
    /\ userPitch = <<>>
    /\ mic = 0
    /\ mu = MuFree
    /\ handlers = [h \in Sessions |-> NewMicHandler]
    /\ ui = UIIdle
    /\ g = [s \in Sessions |-> GNone]
    /\ sessions = 0
    /\ crashed = FALSE
    /\ device = {Silence}

\* the App untouched: a call of the analysis engine alone
AppIdle ==
    UNCHANGED <<state, mode, message, audioPlayer, songPitch, userPitch, mic, mu,
                handlers, ui, g, sessions, crashed, device>>

InitDetect ==
    /\ InitApp
    /\ call \in DetectCalls
    /\ ret = NoRet

CallDetectPitch ==
    /\ call.fn = "DetectPitch" /\ ~ret.done
    /\ ret' = [done |-> TRUE,
               val |-> DetectPitch(call.samples, call.minFreq, call.maxFreq)]
    /\ AppIdle /\ UNCHANGED call

NextDetect == CallDetectPitch

SpecDetect == InitDetect /\ [][NextDetect]_appVars

(* --------------------------- the gate, called -------------------------- *)
\* a block of BlockLen samples with c full-scale pulses, 22 samples apart
LiveBlock(c) ==
    [i \in 1..BlockLen |-> IF (i - 1) % 22 = 0 /\ (i - 1) \div 22 < c THEN SampleDen ELSE 0]

LiveBlocks == {LiveBlock(c) : c \in 0..3}

\* the thresholds Calibrate leaves: 1.5 times the energy of a block it heard
LiveThresholds == {CalibrateThreshold(<<CalculateEnergy(b)>>) : b \in LiveBlocks}

\* the Smoother of a new handler, and one that holds the reading of an earlier
\* loud block
LiveSmoothers ==
    {NewSmoother(SmootherSize),
     [buffer |-> [i \in 1..SmootherSize |->
                     IF i = 1 THEN ToFloat64(Rat(SampleRate, 22)) ELSE FZero],
      cursor |-> 1]}

LiveCalls ==
    {[fn |-> "DetectPitchFromMic",
      m |-> [NewMicHandler EXCEPT !.Buffer = b, !.Threshold = th, !.Smoother = sm],
      mode |-> md] :
        b \in LiveBlocks, th \in LiveThresholds, sm \in LiveSmoothers, md \in Modes}

\* a 10 ms block of frames with c pulses of -1.0, spacing samples apart
PulseBlock(c, spacing) ==
    [j \in 1..StepFrames |->
        IF (j - 1) % spacing = 0 /\ (j - 1) \div spacing < c
        THEN -PcmFullScale ELSE 0]

TrackBlock(c) == PulseBlock(c, PulseSpacing)

RECURSIVE TrackPcm(_, _)
TrackPcm(counts, k) ==
    IF k > Len(counts) THEN <<>> ELSE TrackBlock(counts[k]) \o TrackPcm(counts, k + 1)

\* tracks of up to MaxTrackBlocks blocks of no, one, three or four pulses,
\* with or without a byte after the last frame
TrackCalls ==
    {[fn |-> "analyzePitch", t |-> [pcm |-> TrackPcm(counts, 1), extra |-> x],
      mode |-> md] :
        counts \in UNION {[1..k -> {0, 1, 3, 4}] : k \in 0..MaxTrackBlocks},
        x \in {0, 1}, md \in Modes}

\* tracks of a block of four pulses FastSpacing apart and a silent block
FastTracks ==
    {[fn |-> "analyzePitch",
      t |-> [pcm |-> PulseBlock(4, FastSpacing) \o TrackBlock(0), extra |-> x],
      mode |-> md] : x \in {0, 1}, md \in Modes}

\* tracks of a loud block, a gap of 1 .. MaxGapBlocks or of MaxGapFrames + 1
\* silent blocks and a block pitched higher, with or without a byte after the
\* last frame (with it the last block is analyzed too)
GapTracks ==
    {[fn |-> "analyzePitch",
      t |-> [pcm |-> TrackBlock(4) \o TrackPcm([k \in 1..gap |-> 0], 1)
                        \o PulseBlock(4, FastSpacing),
             extra |-> x],
      mode |-> md] :
        gap \in (1..MaxGapBlocks) \cup {MaxGapFrames + 1}, x \in {0, 1}, md \in Modes}

InitGate ==
    /\ InitApp
    /\ call \in LiveCalls \cup TrackCalls \cup FastTracks \cup GapTracks
    /\ ret = NoRet

CallDetectPitchFromMic ==
    /\ call.fn = "DetectPitchFromMic" /\ ~ret.done
    /\ LET r == DetectPitchFromMic(call.m, call.mode)
       IN  ret' = [done |-> TRUE, val |-> r.out, m |-> r.m, detected |-> r.detected,
                   minF |-> r.minF, maxF |-> r.maxF]
    /\ AppIdle /\ UNCHANGED call

CallAnalyzePitch ==
    /\ call.fn = "analyzePitch" /\ ~ret.done
    /\ \E r \in {analyzePitch(call.t, call.mode)} :
           ret' = [done |-> TRUE, val |-> r.songPitch, minEnergy |-> r.minEnergy,
                   blocks |-> r.blocks]
    /\ AppIdle /\ UNCHANGED call

NextGate == CallDetectPitchFromMic \/ CallAnalyzePitch

SpecGate == InitGate /\ [][NextGate]_appVars

(* ------------------------- the Smoother, called ------------------------ *)
\* a reading that was stored before the calls begin
OldReading == FromInt(100)

\* the smoothers of size 1 .. SmootherSize the calls begin on: any cursor, any
\* buffer of zeros and old readings
SmootherStates ==
    UNION {{[buffer |-> b, cursor |-> c] : b \in [1..k -> {FZero, OldReading}],
                                            c \in 0..(k - 1)} : k \in 1..SmootherSize}

\* the values passed to Smooth: zero, a negative one and two pitches as
\* DetectPitch returns them (44100/53 Hz and 44100/11 Hz)
SmoothInputs ==
    {FZero, ToFloat64(RInt(-1)), ToFloat64(Rat(SampleRate, 53)),
     ToFloat64(Rat(SampleRate, 11))}

\* a call Smooth(val) on the smoother s: the calls-th call, the run-th in a row
\* with this value; since holds the values passed after the last val <= 0
\* and cleared tells whether there was such a call before this one
InitSmooth ==
    /\ InitApp
    /\ call \in {[fn |-> "Smooth", s |-> s, val |-> v, calls |-> 1, run |-> 1,
                  since |-> {}, cleared |-> FALSE] :
                     s \in SmootherStates, v \in SmoothInputs}
    /\ ret = NoRet

CallSmooth ==
    /\ call.fn = "Smooth" /\ ~ret.done
    /\ \E r \in {Smooth(call.s, call.val)} :
          ret' = [done |-> TRUE, val |-> r.out, s |-> r.s]
    /\ AppIdle /\ UNCHANGED call

\* the caller passes the next reading to the same smoother
NextReading ==
    /\ call.fn \in {"Smooth", "Reset"} /\ ret.done
    /\ call.calls < MaxSmoothCalls
    /\ \E v \in SmoothInputs :
          call' = [fn |-> "Smooth", s |-> ret.s, val |-> v,
                   calls |-> call.calls + 1,
                   run |-> IF v = call.val THEN call.run + 1 ELSE 1,
                   since |-> IF FPositive(call.val) THEN call.since \cup {call.val}
                             ELSE {},
                   cleared |-> call.cleared \/ ~FPositive(call.val)]
    /\ ret' = NoRet
    /\ AppIdle

CallReset ==
    /\ call.fn = "Reset" /\ ~ret.done
    /\ ret' = [done |-> TRUE, val |-> FZero, s |-> Reset(call.s)]
    /\ AppIdle /\ UNCHANGED call

\* the caller resets the same smoother; for the readings that follow this
\* counts as a value <= 0
NextReset ==
    /\ call.fn = "Smooth" /\ ret.done
    /\ call.calls < MaxSmoothCalls
    /\ call' = [fn |-> "Reset", s |-> ret.s, val |-> FZero,
                calls |-> call.calls + 1, run |-> 1, since |-> {},
                cleared |-> call.cleared \/ ~FPositive(call.val)]
    /\ ret' = NoRet
    /\ AppIdle

NextSmooth == CallSmooth \/ NextReading \/ CallReset \/ NextReset

SpecSmooth == InitSmooth /\ [][NextSmooth]_appVars

(* --------------------- the analysis engine, called --------------------- *)
\* the pitch tracks handed to fillShortGaps: 0 for an unvoiced block, 1 Hz and
\* 2 Hz for voiced ones (a third of their difference is not a float64)
FillValues == {FZero, FromInt(1), FromInt(2)}

FillCalls ==
    {[fn |-> "fillShortGaps", pitches |-> p, maxGapFrames |-> m] :
        p \in UNION {[1..k -> FillValues] : k \in 0..MaxFillLen},
        m \in 0..MaxFillGap}

\* a track of LongTrackBlocks blocks, faint and loud in turn, block r silent
LongCounts(r) ==
    [k \in 1..LongTrackBlocks |-> IF k = r THEN 0 ELSE IF k % 2 = 0 THEN 4 ELSE 1]

\* the buffers handed to calibrateSilenceFromAudio: every track of up to
\* MaxCalibBlocks silent, faint or loud blocks and the long ones, each whole,
\* with a byte after the last frame, and with a frame cut off its end
CalibCalls ==
    {[fn |-> "calibrateSilenceFromAudio",
      t |-> [pcm |-> SubSeq(TrackPcm(counts, 1), 1, Len(counts) * StepFrames - cut),
             extra |-> x],
      mode |-> md] :
        counts \in UNION {[1..k -> {0, 1, 4}] : k \in 1..MaxCalibBlocks}
                      \cup {LongCounts(r) : r \in 1..LongTrackBlocks},
        cut \in {0, 1}, x \in {0, 1}, md \in {"Singing", "FullMix"}}

\* the frequencies of the note calls: none, negative, every whole frequency
\* up to MaxFreqHz, notes of the piano, frequencies next to the middle between
\* two notes (453, 1281) and two periods of the Detector
NoteCalls ==
    {[fn |-> "FreqToNote", freq |-> f] :
        f \in {FromInt(hz) : hz \in (-1)..MaxFreqHz}
              \cup {FromInt(hz) : hz \in {27, 82, 110, 261, 440, 453, 466, 880, 1047,
                                         1281, 4186}}
              \cup {ToFloat64(Rat(SampleRate, 53)), ToFloat64(Rat(SampleRate, 100))}}

\* the amplitudes of the energy calls: full scale, one level less (its square
\* is not a float32), half scale, one level, none
EnergyLevels == {-SampleDen, -(SampleDen \div 2), 0, 1, SampleDen - 1, SampleDen}

\* every non-empty block of at most MaxEnergyLen samples
EnergyCalls ==
    {[fn |-> "CalculateEnergy", samples |-> b] :
        b \in UNION {[1..n -> EnergyLevels] : n \in 1..MaxEnergyLen}}

\* the frames drawn: a pitch track of up to MaxDrawLen blocks or of
\* LongDrawLen blocks, a playback position Position() can return (a whole
\* number of blocks of 10 ms, none negative) in or after the short track, in
\* the long one or at the start of the window of DrawSongPitch, and a history
\* of up to MaxDrawPairs pairs stamped with a position in milliseconds
DrawTimes == {0, 10, 20, 30, 290, 2990, 3000, 3010, 3020}

DrawCalls ==
    {[fn |-> "drawPlayingMode", songPitch |-> [k \in 1..n |-> RInt(440)],
      currMs |-> t, userPitch |-> up] :
        n \in (0..MaxDrawLen) \cup {LongDrawLen}, t \in DrawTimes,
        up \in UNION {{[k \in 1..(2 * c) |-> IF k % 2 = 1 THEN FromInt(ms[(k + 1) \div 2])
                                          ELSE p[k \div 2]] :
                          ms \in [1..c -> {140, 145, 155, 175}],
                          p \in [1..c -> {FZero, FromInt(440)}]} :
                      c \in 0..MaxDrawPairs}}

\* timestamps of the histories pruned, in any order, and the positions they
\* are pruned at
PruneTimes == {0, 5000, 10000, 40000}
PrunePositions == {0, 30000, 35000, 40000, 70000, 70001}

\* the history with the timestamps ts, the k-th pair carrying the pitch 100 k
PruneHistory(ts) ==
    [i \in 1..(2 * Len(ts)) |->
        IF i % 2 = 1 THEN RInt(ts[(i + 1) \div 2]) ELSE FromInt(100 * (i \div 2))]

PruneCalls ==
    {[fn |-> "pruneUserPitch", userPitch |-> PruneHistory(ts), currentMs |-> c] :
        ts \in UNION {[1..n -> PruneTimes] : n \in 0..MaxPrunePairs},
        c \in PrunePositions}

InitCalls ==
    /\ InitApp
    /\ call \in FillCalls \cup CalibCalls \cup EnergyCalls \cup NoteCalls
                \cup DrawCalls \cup PruneCalls
    /\ ret = NoRet

CallCalculateEnergy ==
    /\ call.fn = "CalculateEnergy" /\ ~ret.done
    /\ ret' = [done |-> TRUE, val |-> CalculateEnergy(call.samples)]
    /\ AppIdle /\ UNCHANGED call

CallCalibrateSilence ==
    /\ call.fn = "calibrateSilenceFromAudio" /\ ~ret.done
    /\ ret' = [done |-> TRUE, val |-> calibrateSilenceFromAudio(call.t, call.mode)]
    /\ AppIdle /\ UNCHANGED call

CallFillShortGaps ==
    /\ call.fn = "fillShortGaps" /\ ~ret.done
    /\ ret' = The({[done |-> TRUE, val |-> r.result, pitches |-> r.pitches] :
                        r \in {fillShortGaps(call.pitches, call.maxGapFrames)}})
    /\ AppIdle /\ UNCHANGED call

CallFreqToNote ==
    /\ call.fn = "FreqToNote" /\ ~ret.done
    /\ ret' = [done |-> TRUE, val |-> FreqToNote(call.freq)]
    /\ AppIdle /\ UNCHANGED call

\* one frame of drawPlayingMode
CallDrawPlayingMode ==
    /\ call.fn = "drawPlayingMode" /\ ~ret.done
    /\ ret' = [done |-> TRUE,
               val |-> drawPlayingMode(call.songPitch, call.userPitch, call.currMs)]
    /\ AppIdle /\ UNCHANGED call

CallPruneUserPitch ==
    /\ call.fn = "pruneUserPitch" /\ ~ret.done
    /\ ret' = [done |-> TRUE, val |-> pruneUserPitch(call.userPitch, call.currentMs)]
    /\ AppIdle /\ UNCHANGED call

NextCalls ==
    \/ CallPruneUserPitch
    \/ CallFillShortGaps
    \/ CallCalibrateSilence
    \/ CallCalculateEnergy
    \/ CallFreqToNote
    \/ CallDrawPlayingMode

SpecCalls == InitCalls /\ [][NextCalls]_appVars

(* ------------------- the engine, called at its edges -------------------- *)
\* the calls at the numeric edges: the energy of an empty or silent block,
\* DetectPitch on blocks of no, one or two samples, batch calibration on a
\* buffer shorter than one block, Smooth on every smoother, and FreqToNote
EdgeCalls ==
    {[fn |-> "CalculateEnergy", samples |-> b] :
        b \in UNION {[1..n -> {0}] : n \in 0..MaxEnergyLen}}
    \cup {[fn |-> "DetectPitch", samples |-> b,
           minFreq |-> f.minFreq, maxFreq |-> f.maxFreq] :
             b \in UNION {[1..n -> SampleLevels] : n \in 0..2}, f \in Bands}
    \cup {[fn |-> "calibrateSilenceFromAudio",
           t |-> [pcm |-> SubSeq(TrackPcm(<<c>>, 1), 1, n), extra |-> x],
           mode |-> md] :
             c \in {0, 4}, n \in {0, 1, StepFrames - 1}, x \in {0, 1},
             md \in {"Singing", "FullMix"}}
    \cup {[fn |-> "Smooth", s |-> s, val |-> v, calls |-> 1, run |-> 1,
           since |-> {}, cleared |-> FALSE] :
             s \in SmootherStates, v \in SmoothInputs}
    \cup NoteCalls

InitEdge ==
    /\ InitApp
    /\ call \in EdgeCalls
    /\ ret = NoRet

NextEdge ==
    \/ CallCalculateEnergy
    \/ CallDetectPitch
    \/ CallCalibrateSilence
    \/ CallSmooth
    \/ NextReading
    \/ CallFreqToNote

SpecEdge == InitEdge /\ [][NextEdge]_appVars

(* -------------------- Start, Stop and cleanup, called ------------------- *)
\* The frame of the calls made on the handler and the App: fn the function
\* called last, pc its next statement, n the calls of Stop and cleanup made,
\* attempt, slept, outcomes and err the loop variable of Start, the delays it
\* slept, what the device did in its attempts and the error it returns; opens
\* and dones count the streams opened and the channels made, streamCloses and
\* chanCloses the ones closed.
NoCalls ==
    [fn |-> "none", pc |-> "idle", n |-> 0, attempt |-> 0, slept |-> <<>>,
     outcomes |-> <<>>, err |-> "nil", opens |-> 0, dones |-> 0,
     chanCloses |-> 0, streamCloses |-> 0]

\* the variables no statement of Start and Stop writes
HandlerFrame ==
    UNCHANGED <<state, mode, message, audioPlayer, songPitch, userPitch, mic, mu,
                ui, g, sessions, device, ret>>

\* m.Start() on the handler h, a statement at a step, call.pc naming the next
Start(h) ==
    /\ ~crashed /\ HandlerFrame /\ UNCHANGED crashed
    /\ \/ \* for attempt := 0; attempt < maxRetries; attempt++ { if attempt > 0 {
          /\ call.pc = "Start_for"
          /\ call' = [call EXCEPT !.pc = IF call.attempt >= MaxRetries THEN "Start_err"
                                         ELSE IF call.attempt > 0 THEN "Start_sleep"
                                         ELSE "Start_open"]
          /\ UNCHANGED handlers
       \/ \* time.Sleep(time.Duration(100*(1<<attempt)) * time.Millisecond) }
          /\ call.pc = "Start_sleep"
          /\ call' = [call EXCEPT !.pc = "Start_open",
                                  !.slept = Append(@, BackoffMs(call.attempt))]
          /\ UNCHANGED handlers
       \/ \* m.Stream, err = portaudio.OpenDefaultStream(...); if err != nil { continue }
          /\ call.pc = "Start_open"
          /\ \/ /\ handlers' = [handlers EXCEPT ![h].Stream = "open"]
                /\ call' = [call EXCEPT !.pc = "Start_start", !.opens = @ + 1]
             \/ /\ handlers' = [handlers EXCEPT ![h].Stream = "nil"]
                /\ call' = [call EXCEPT !.pc = "Start_for", !.attempt = @ + 1,
                                        !.outcomes = Append(@, "open_fails")]
       \/ \* if err = m.Stream.Start(); err != nil {
          /\ call.pc = "Start_start"
          /\ \/ call' = [call EXCEPT !.pc = "Start_make", !.outcomes = Append(@, "ok")]
             \/ call' = [call EXCEPT !.pc = "Start_close",
                                     !.outcomes = Append(@, "start_fails")]
          /\ UNCHANGED handlers
       \/ \* m.Stream.Close(); m.Stream = nil; continue }
          /\ call.pc = "Start_close"
          /\ handlers' = [handlers EXCEPT ![h].Stream = "nil"]
          /\ call' = [call EXCEPT !.pc = "Start_for", !.attempt = @ + 1,
                                  !.streamCloses = @ + 1]
       \/ \* m.Done = make(chan struct{}); return nil
          /\ call.pc = "Start_make"
          /\ handlers' = [handlers EXCEPT ![h].Done = "open"]
          /\ call' = [call EXCEPT !.pc = "Start_ret", !.dones = @ + 1, !.err = "nil"]
       \/ \* return fmt.Errorf("failed to start microphone after %d attempts: %v", ...)
          /\ call.pc = "Start_err"
          /\ call' = [call EXCEPT !.pc = "Start_ret", !.err = "failed to start microphone"]
          /\ UNCHANGED handlers

\* Stop without its last statement
StopNilDone_Skip(h) == UNCHANGED handlers

\* Stop: m.Done = nil
StopNilDone(h) == handlers' = [handlers EXCEPT ![h].Done = "nil"]

\* m.Stop() on the handler h, a statement at a step, call.pc naming the next;
\* close of a closed channel panics and nothing after it runs
Stop(h) ==
    /\ ~crashed /\ HandlerFrame
    /\ \/ \* if m.Done != nil { close(m.Done)
          /\ call.pc = "Stop_close"
          /\ IF handlers[h].Done = "nil"
             THEN /\ call' = [call EXCEPT !.pc = "Stop_stream"]
                  /\ UNCHANGED <<handlers, crashed>>
             ELSE IF handlers[h].Done = "closed"
             THEN /\ crashed' = TRUE
                  /\ UNCHANGED <<handlers, call>>
             ELSE /\ handlers' = [handlers EXCEPT ![h].Done = "closed"]
                  /\ call' = [call EXCEPT !.pc = "Stop_sleep", !.chanCloses = @ + 1]
                  /\ UNCHANGED crashed
       \/ \* time.Sleep(50 * time.Millisecond) }
          /\ call.pc = "Stop_sleep"
          /\ call' = [call EXCEPT !.pc = "Stop_stream"]
          /\ UNCHANGED <<handlers, crashed>>
       \/ \* if m.Stream != nil { m.Stream.Stop(); m.Stream.Close(); m.Stream = nil }
          /\ call.pc = "Stop_stream"
          /\ handlers' = [handlers EXCEPT ![h].Stream = "nil"]
          /\ call' = [call EXCEPT !.pc = "Stop_done",
                                  !.streamCloses = IF handlers[h].Stream = "nil"
                                                   THEN @ ELSE @ + 1]
          /\ UNCHANGED crashed
       \/ \* m.Done = nil
          /\ call.pc = "Stop_done"
          /\ StopNilDone(h)
          /\ call' = [call EXCEPT !.pc = "Stop_ret"]
          /\ UNCHANGED crashed

\* the App with the new handler as a.mic or with no a.mic, with or without a
\* player, a pitch track, a reading in the history and a message, and no call
\* made yet
InitStop ==
    /\ state = "StartScreen"
    /\ mode = "Singing"
    /\ message \in {"", "Loading"}
    /\ audioPlayer \in {NoPlayer, [NewPlayer EXCEPT !.playing = TRUE]}
    /\ songPitch \in {"nil", "track"}
    /\ userPitch \in {<<>>, <<RInt(0), FromInt(440)>>}
    /\ mic \in {0, 1}
    /\ mu = MuFree
    /\ handlers = [h \in Sessions |-> NewMicHandler]
    /\ call = NoCalls
    /\ ui = UIIdle
    /\ g = [s \in Sessions |-> GNone]
    /\ sessions = 1
    /\ crashed = FALSE
    /\ device = {Silence}
    /\ ret = NoRet

\* m.Start() on the new handler, as startGame calls it: the call, the
\* statements of Start and the return
CallStart ==
    \/ /\ call.pc = "idle" /\ call.fn = "none" /\ ~crashed
       /\ call' = [call EXCEPT !.fn = "Start", !.pc = "Start_for"]
       /\ ret' = NoRet
       /\ UNCHANGED <<state, mode, message, audioPlayer, songPitch, userPitch, mic,
                      mu, handlers, ui, g, sessions, crashed, device>>
    \/ call.fn = "Start" /\ Start(1)
    \/ /\ call.pc = "Start_ret" /\ ~crashed
       /\ call' = [call EXCEPT !.pc = "idle"]
       /\ ret' = [done |-> TRUE, err |-> call.err]
       /\ UNCHANGED <<state, mode, message, audioPlayer, songPitch, userPitch, mic,
                      mu, handlers, ui, g, sessions, crashed, device>>

\* m.Stop() on the handler: the call, the statements of Stop and the return
CallStop ==
    \/ /\ call.pc = "idle" /\ call.n < MaxStopCalls /\ ~crashed
       /\ call' = [call EXCEPT !.fn = "Stop", !.pc = "Stop_close", !.n = @ + 1]
       /\ ret' = NoRet
       /\ UNCHANGED <<state, mode, message, audioPlayer, songPitch, userPitch, mic,
                      mu, handlers, ui, g, sessions, crashed, device>>
    \/ call.fn = "Stop" /\ Stop(1)
    \/ /\ call.fn = "Stop" /\ call.pc = "Stop_ret" /\ ~crashed
       /\ call' = [call EXCEPT !.pc = "idle"]
       /\ ret' = [done |-> TRUE]
       /\ UNCHANGED <<state, mode, message, audioPlayer, songPitch, userPitch, mic,
                      mu, handlers, ui, g, sessions, crashed, device>>

\* a.cleanup(): the call, its statements one at a step with those of the Stop
\* it calls, and the return
CallCleanup ==
    \/ /\ call.pc = "idle" /\ call.n < MaxStopCalls /\ ~crashed
       /\ call' = [call EXCEPT !.fn = "cleanup", !.pc = "cl_mic", !.n = @ + 1]
       /\ ret' = NoRet
       /\ UNCHANGED <<state, mode, message, audioPlayer, songPitch, userPitch, mic,
                      mu, handlers, ui, g, sessions, crashed, device>>
    \/ \* if a.mic != nil { a.mic.Stop()
       /\ call.pc = "cl_mic" /\ ~crashed
       /\ call' = [call EXCEPT !.pc = IF mic # 0 THEN "Stop_close" ELSE "cl_player"]
       /\ UNCHANGED <<state, mode, message, audioPlayer, songPitch, userPitch, mic,
                      mu, handlers, ui, g, sessions, crashed, device, ret>>
    \/ call.fn = "cleanup" /\ mic # 0 /\ Stop(mic)
    \/ \* a.mic = nil }
       /\ call.fn = "cleanup" /\ call.pc = "Stop_ret" /\ ~crashed
       /\ mic' = 0
       /\ call' = [call EXCEPT !.pc = "cl_player"]
       /\ UNCHANGED <<state, mode, message, audioPlayer, songPitch, userPitch,
                      mu, handlers, ui, g, sessions, crashed, device, ret>>
    \/ \* if a.audioPlayer != nil {
       /\ call.pc = "cl_player" /\ ~crashed
       /\ call' = [call EXCEPT !.pc = IF audioPlayer.nil THEN "cl_song" ELSE "cl_pause"]
       /\ UNCHANGED <<state, mode, message, audioPlayer, songPitch, userPitch, mic,
                      mu, handlers, ui, g, sessions, crashed, device, ret>>
    \/ \* a.audioPlayer.Pause(), then a.audioPlayer.Close(), then a.audioPlayer = nil }
       /\ ~crashed
       /\ \/ /\ call.pc = "cl_pause"
             /\ audioPlayer' = [audioPlayer EXCEPT !.playing = FALSE]
             /\ call' = [call EXCEPT !.pc = "cl_close"]
          \/ /\ call.pc = "cl_close"
             /\ audioPlayer' = [audioPlayer EXCEPT !.playing = FALSE, !.closed = TRUE]
             /\ call' = [call EXCEPT !.pc = "cl_playernil"]
          \/ /\ call.pc = "cl_playernil"
             /\ audioPlayer' = NoPlayer
             /\ call' = [call EXCEPT !.pc = "cl_song"]
       /\ UNCHANGED <<state, mode, message, songPitch, userPitch, mic,
                      mu, handlers, ui, g, sessions, crashed, device, ret>>
    \/ \* a.songPitch = nil, then a.userPitch = make([]float64, 0), then
       \* a.message = "" and the return
       /\ ~crashed
       /\ \/ /\ call.pc = "cl_song"
             /\ songPitch' = "nil"
             /\ call' = [call EXCEPT !.pc = "cl_userpitch"]
             /\ UNCHANGED <<userPitch, message, ret>>
          \/ /\ call.pc = "cl_userpitch"
             /\ userPitch' = <<>>
             /\ call' = [call EXCEPT !.pc = "cl_message"]
             /\ UNCHANGED <<songPitch, message, ret>>
          \/ /\ call.pc = "cl_message"
             /\ message' = ""
             /\ call' = [call EXCEPT !.pc = "idle"]
             /\ ret' = [done |-> TRUE]
             /\ UNCHANGED <<songPitch, userPitch>>
       /\ UNCHANGED <<state, mode, audioPlayer, mic, mu, handlers, ui, g, sessions,
                      crashed, device>>

NextStop == CallStart \/ CallStop \/ CallCleanup

SpecStop == InitStop /\ [][NextStop]_appVars

(* ---------------------- the history, appended to ----------------------- *)
\* the playback position moves on by one of these between two readings
PositionSteps == {1, 9999, 10000, 30000}

\* no reading yet; call records the appends made: at is the position of the
\* latest one and all the positions of all of them
InitHistory ==
    /\ InitApp
    /\ call = [fn |-> "append", at |-> -1, all |-> {}]
    /\ ret = NoRet

\* the critical section of micLoop at a position past the latest reading:
\* a.userPitch = append(a.userPitch, pos, pitch); a.pruneUserPitch(pos)
AppendAndPrune ==
    /\ call.fn = "append"
    /\ Cardinality(call.all) < MaxAppends
    /\ \E pos \in {IF call.at < 0 THEN 0 ELSE call.at + d : d \in PositionSteps} :
       \E pitch \in {FZero, OldReading} :
          /\ userPitch' = pruneUserPitch(userPitch \o <<RInt(pos), pitch>>, pos)
          /\ call' = [fn |-> "append", at |-> pos, all |-> call.all \cup {pos}]
    /\ UNCHANGED <<state, mode, message, audioPlayer, songPitch, mic, mu, handlers,
                   ui, g, sessions, crashed, device, ret>>

SpecHistory == InitHistory /\ [][AppendAndPrune]_appVars

(* ------------------------------ PitchHistory --------------------------- *)
\* the timestamps of the history, head to tail
HistoryPairs(up) == Len(up) \div 2
TimeAt(up, k) == up[2 * k - 1]
PitchAt(up, k) == up[2 * k]

\* C1: after every capture step that appends and prunes at playback position
\* T, every entry of the history has a timestamp >= T - 30000.
C1_RetentionWindow ==
    \A s \in Sessions :
        g[s].pc = "ml_unlock" =>
            \A k \in 1..HistoryPairs(userPitch) :
                RLe(RInt(g[s].pos - MaxUserPitchHistoryMs), TimeAt(userPitch, k))

\* C2: in every reachable state the timestamps of the history are in
\* non-decreasing order from head to tail.
C2_NonDecreasing ==
    \A k \in 1..HistoryPairs(userPitch) :
        \A l \in k..HistoryPairs(userPitch) :
            RLe(TimeAt(userPitch, k), TimeAt(userPitch, l))

\* C14: when readings are appended at strictly increasing positions and the
\* history is pruned after each append, the history holds exactly the
\* appended readings whose timestamp is >= latest - 30000, in strictly
\* increasing order of timestamp, and is never empty.
C14_PruneKeepsWindow ==
    (call.fn = "append" /\ call.all # {}) =>
        /\ HistoryPairs(userPitch) >= 1
        /\ Len(userPitch) = 2 * HistoryPairs(userPitch)
        /\ {TimeAt(userPitch, k) : k \in 1..HistoryPairs(userPitch)} =
               {RInt(t) : t \in {u \in call.all : u >= call.at - MaxUserPitchHistoryMs}}
        /\ \A k \in 1..(HistoryPairs(userPitch) - 1) :
               RLt(TimeAt(userPitch, k), TimeAt(userPitch, k + 1))

\* readings were pruned and the oldest one kept is exactly 30000 ms old
C14_Witness ==
    /\ call.fn = "append"
    /\ HistoryPairs(userPitch) >= 2
    /\ HistoryPairs(userPitch) < Cardinality(call.all)
    /\ TimeAt(userPitch, 1) = RInt(call.at - MaxUserPitchHistoryMs)

(* --------------------------- lock and threads --------------------------- *)
\* micLoop between a.mu.Lock() and a.mu.Unlock()
InAppendSection(s) ==
    g[s].pc \in {"ml_chkplayer", "ml_isplaying", "ml_pos", "ml_append", "ml_append2",
                 "ml_prune", "ml_prune_scan", "ml_prune_copy", "ml_prune_store",
                 "ml_unlock"}

\* a complete (timestampMs, frequencyHz) pair: whole milliseconds >= 0, then a
\* pitch >= 0
WholePair(up, k) ==
    /\ DOMAIN TimeAt(up, k) = {"n", "d"}
    /\ TimeAt(up, k).d = 1 /\ TimeAt(up, k).n >= 0
    /\ DOMAIN PitchAt(up, k) = {"neg", "hi", "lo", "e"}
    /\ ~PitchAt(up, k).neg

\* C3: in every state in which Draw holds the lock and reads the history, the
\* history is a sequence of complete pairs and no capture thread is part way
\* through its append and prune.
C3_DrawSeesWholePairs ==
    ui.pc = "draw_locked" =>
        /\ Len(userPitch) % 2 = 0
        /\ \A k \in 1..HistoryPairs(userPitch) : WholePair(userPitch, k)
        /\ \A s \in Sessions : ~InAppendSection(s)

\* Draw reads a history that holds a pair while a capture thread waits for the lock
C3_Witness ==
    /\ ui.pc = "draw_locked"
    /\ Len(userPitch) >= 2
    /\ \E s \in Sessions : g[s].pc = "ml_lock"

\* the places where a thread's next step reads or writes the current live
\* pitch, the history, the session state, the mode or the status message
GoroutineAccessPcs ==
    {"ml_state", "ml_detect", "ml_pos", "ml_append", "ml_append2", "ml_prune",
     "ml_prune_scan", "ml_prune_copy", "ml_prune_store", "cal_message", "cal_load",
     "cal_msg", "cal_install3"}
UIAccessPcs == {"cl_userpitch", "cl_message", "exit_state", "sg_init", "sg_state",
                "sg_message", "sg_userpitch", "sg_fail", "sg_fail2", "draw_locked"}
\* the places where the next step of a goroutine reads or writes the history
HistoryPcs == {"ml_append", "ml_append2", "ml_prune", "ml_prune_scan", "ml_prune_copy",
               "ml_prune_store"}

\* C4: every read and write of the shared mutable state is performed while the
\* lock is held, and no two threads are at an access of the history at once.
C4_SharedStateUnderLock ==
    /\ \A s \in Sessions : g[s].pc \in GoroutineAccessPcs => mu = MuG(s)
    /\ ui.pc \in UIAccessPcs => mu = MuUI
    /\ ~(ui.pc \in {"cl_userpitch", "sg_userpitch"}
           /\ \E s \in Sessions : g[s].pc \in HistoryPcs)

\* inside the microphone block read, the calibration pass, or the file
\* checks, the separation, the decoding and the analysis of LoadAndAnalyzeSong
InBlockingCall(s) ==
    g[s].pc \in {"ml_devread", "ml_inread", "cal_loop", "cal_devread", "cal_inread",
                 "cal_thr", "cal_loading", "cal_separating"}

\* inside the status callback that LoadAndAnalyzeSong calls
InLoadCallback(s) == g[s].pc = "cal_msg"

\* C5 (as stated): a thread inside the microphone block read, the calibration
\* pass or LoadAndAnalyzeSong does not hold the shared-state lock.
C5_NoLockInsideLoad ==
    \A s \in Sessions : (InBlockingCall(s) \/ InLoadCallback(s)) => mu # MuG(s)

\* C5 (amended): a thread inside the microphone block read, the calibration
\* pass or the file checks, the separation, the decoding and the analysis of
\* LoadAndAnalyzeSong does not hold the shared-state lock; inside
\* LoadAndAnalyzeSong the thread holds it only in the status callback, around
\* the one assignment of the message.
C5_NoLockAcrossBlockingIO ==
    \A s \in Sessions :
        /\ InBlockingCall(s) => mu # MuG(s)
        /\ InLoadCallback(s) => mu = MuG(s)

\* the separation is running, its status message published by the callback,
\* while another thread holds the lock
C5_Witness ==
    \E s \in Sessions :
        g[s].pc = "cal_separating" /\ message = "Separating" /\ mu = MuUI

\* C7: no device read is started on a stream Stop has closed, and when Stop has
\* returned the handler holds no open stream.
C7_NoReadAfterClose ==
    /\ \A s \in Sessions : ~g[s].stale
    /\ ui.pc = "cl_micnil" => handlers[mic].Stream = "nil"

MicLoopRunning(s) ==
    g[s].pc \in {"ml_top", "ml_isdone", "ml_read", "ml_devread", "ml_inread",
                 "ml_state", "ml_detect", "ml_lock"} \/ InAppendSection(s)

\* C8: at most one micLoop is running, and a micLoop never reads from or
\* publishes for the handler of another session.
C8_OneCaptureThread ==
    /\ Cardinality({s \in Sessions : MicLoopRunning(s)}) <= 1
    /\ \A s \in Sessions :
          g[s].pc \in {"ml_devread", "ml_inread"} => g[s].h = s
    /\ \A s \in Sessions :
          g[s].pc \in {"ml_isdone", "ml_read", "ml_detect"} => mic \in {0, s}

\* Stop has been called on the handler of session s: its Done channel, open
\* once the session was started, is closed or already reset
StopCalled(s) == handlers[s].Done # "open"

\* C6: once Stop has been called on the session's microphone, the micLoop of
\* that session eventually returns, whatever the user does afterwards.
C6_MicLoopReturns ==
    \A s \in Sessions :
        (MicLoopRunning(s) /\ StopCalled(s)) ~> (~MicLoopRunning(s) \/ crashed)

(* ------------------------------- Smoother ------------------------------ *)
\* C11: Smooth(x) with x <= 0 returns 0 and leaves every entry of the buffer
\* zero, whatever the smoother held; and after such a call the buffer only
\* ever holds zeros and values passed since, so that no reading from before
\* it is part of a later result.
C11_ClearOnSilence ==
    (call.fn = "Smooth" /\ ret.done) =>
        /\ ~FPositive(call.val) =>
              /\ ret.val = FZero
              /\ \A i \in 1..Len(ret.s.buffer) : ret.s.buffer[i] = FZero
        /\ (call.cleared /\ FPositive(call.val)) =>
              \A i \in 1..Len(ret.s.buffer) :
                  ret.s.buffer[i] \in {FZero, call.val} \cup call.since

\* a smoother that held old readings was cleared and has returned a positive
\* value for a later reading
C11_Witness ==
    /\ call.fn = "Smooth" /\ ret.done
    /\ call.cleared /\ FPositive(call.val) /\ FPositive(ret.val)
    /\ call.since # {}
    /\ Len(ret.s.buffer) = SmootherSize

\* the sum of the first k entries of a sequence of float64, added in order
RECURSIVE SumInOrder(_, _)
SumInOrder(seq, k) ==
    IF k = 0 THEN FZero ELSE FAdd(SumInOrder(seq, k - 1), seq[k])

\* the float64 mean of the entries > 0 of a buffer that has one
MeanOfPositive(buffer) ==
    LET positive == SelectSeq(buffer, FPositive)
    IN  FDivInt(SumInOrder(positive, Len(positive)), Len(positive))

\* C26: for a positive v, Smooth writes v at the cursor, leaves the other
\* entries as they are, advances the cursor by one modulo the size and returns
\* the mean of exactly the entries > 0 after the write; the cursor is within
\* [0, size-1] in every state and is not moved by an input <= 0 or by Reset
C26_WriteAdvanceMean ==
    (call.fn \in {"Smooth", "Reset"}) =>
        /\ call.s.cursor \in 0..(Len(call.s.buffer) - 1)
        /\ ret.done =>
              /\ ret.s.cursor \in 0..(Len(ret.s.buffer) - 1)
              /\ IF call.fn = "Smooth" /\ FPositive(call.val)
                 THEN /\ ret.s.buffer = [call.s.buffer EXCEPT ![call.s.cursor + 1] = call.val]
                      /\ ret.s.cursor = (call.s.cursor + 1) % Len(call.s.buffer)
                      /\ ret.val = MeanOfPositive(ret.s.buffer)
                 ELSE ret.s.cursor = call.s.cursor

\* a positive reading was written at the last place of a full-size buffer that
\* holds an older reading and zeros: the cursor wrapped around and the result
\* is the mean of the two readings
C26_Witness ==
    /\ call.fn = "Smooth" /\ ret.done /\ FPositive(call.val)
    /\ Len(call.s.buffer) = SmootherSize
    /\ call.s.cursor = SmootherSize - 1 /\ ret.s.cursor = 0
    /\ Cardinality({i \in 1..SmootherSize : FPositive(ret.s.buffer[i])}) = 2
    /\ \E i \in 1..(SmootherSize - 1) :
          FPositive(ret.s.buffer[i]) /\ ret.s.buffer[i] # call.val
    /\ ret.val # call.val

\* C12: for every window size k and every prior state, the k-th and every
\* later call in a row of Smooth(v) with one positive value v returns exactly v.
C12_ConstantInputConverges ==
    (call.fn = "Smooth" /\ ret.done /\ FPositive(call.val)
        /\ call.run >= Len(call.s.buffer)) =>
            ret.val = call.val

(* ------------------------------- Detector ------------------------------ *)
\* sampleRate / f rounded to the nearest integer
RoundedPeriod(f) == (2 * SampleRate + f) \div (2 * f)

Max(a, b) == IF a > b THEN a ELSE b
Min(a, b) == IF a < b THEN a ELSE b

\* the lags of the stated search range, both ends included
StatedLags(n, minFreq, maxFreq) ==
    Max(2, RoundedPeriod(maxFreq)) .. Min(n - 1, RoundedPeriod(minFreq))

\* the every-other-sample autocorrelation of the block at lag tau
Cross(samples, tau) == PartNorm(CrossSum(samples, tau, 0, Len(samples) - tau))

\* C10: DetectPitch searches every lag of [round(sampleRate/maxFreq),
\* round(sampleRate/minFreq)] clamped to [2, blockLength-1]: it returns
\* sampleRate/bestLag for a lag of that range with the largest positive
\* every-other-sample autocorrelation, and 0 when no lag of the range has a
\* positive one (so for the empty and the all-zero block).
C10_DetectPitchSearch ==
    (call.fn = "DetectPitch" /\ ret.done) =>
        LET lags == StatedLags(Len(call.samples), call.minFreq, call.maxFreq)
            positive == {tau \in lags : PartGt(Cross(call.samples, tau), PartZero)}
        IN  IF positive = {}
            THEN ret.val = RZero
            ELSE \E best \in positive :
                    /\ \A tau \in positive :
                          ~PartGt(Cross(call.samples, tau), Cross(call.samples, best))
                    /\ ret.val = Rat(SampleRate, best)

(* ------------------------------ EnergyGate ----------------------------- *)
\* the energy of block k (from 1) of the track of the call
TrackBlockEnergy(k) == CalculateEnergy(FloatBuf(call.t, (k - 1) * StepBytes))

\* the pitch track as the loop of analyzePitch left it, before the gap filling
LoopTrack == [k \in 1..Len(ret.blocks) |-> ret.blocks[k].p]

\* entries s .. e (from 1) of p are a maximal run of zeros
ZeroRun(p, s, e) ==
    /\ s <= e
    /\ \A j \in s..e : p[j] = FZero
    /\ s = 1 \/ p[s - 1] # FZero
    /\ e = Len(p) \/ p[e + 1] # FZero

\* entry k of the track p lies in a run of at most MaxGapFrames zeros with a
\* nonzero entry right before and right after it
InShortGap(p, k) ==
    \E s \in 2..k : \E e \in k..(Len(p) - 1) :
        ZeroRun(p, s, e) /\ e - s + 1 <= MaxGapFrames

StatedFloor(md) == ToFloat64(IF md = "Singing" THEN Rat(5, 1000) ELSE Rat(1, 1000))

\* the entry at 0-based index idx of the ascending sort of the energies e
SortedAt(e, idx) ==
    CHOOSE x \in {e[k] : k \in 1..Len(e)} :
        /\ Cardinality({k \in 1..Len(e) : FLt(e[k], x)}) <= idx
        /\ idx < Cardinality({k \in 1..Len(e) : FLe(e[k], x)})

\* C16: on a buffer with at least one block, batch calibration returns
\* max(floor, 3 * e[len/10]) with e the ascending sort of the energies of the
\* first min(500, number of blocks) blocks and floor 0.005 in vocal-only mode
\* and 0.001 otherwise; and the hand-written sort puts the energies it is given
\* in ascending order.
C16_BatchThreshold ==
    (call.fn = "calibrateSilenceFromAudio" /\ ret.done
        /\ LenBytes(call.t) \div StepBytes >= 1) =>
        LET count == Min(MaxCalibrationBlocks, LenBytes(call.t) \div StepBytes)
            e == [k \in 1..count |-> TrackBlockEnergy(k)]
            given == CalibrationEnergies(call.t, count, 0)
            sorted == SortEnergies(given, 1)
        IN  /\ ret.val = FMax(StatedFloor(call.mode),
                              FMul(FromInt(3), SortedAt(e, count \div 10)))
            /\ \A k \in 1..Len(sorted) : sorted[k] = SortedAt(given, k - 1)

\* C17: for every buffer, batch calibration returns a threshold >= the floor
\* of the mode (0.005 vocal-only, 0.001 otherwise), so never zero, and exactly
\* the floor when the buffer holds less than one block.
C17_ThresholdFloor ==
    (call.fn = "calibrateSilenceFromAudio" /\ ret.done) =>
        /\ FLe(StatedFloor(call.mode), ret.val)
        /\ ret.val # FZero
        /\ LenBytes(call.t) \div StepBytes = 0 => ret.val = StatedFloor(call.mode)

\* a buffer one frame short of a block, with a stray byte, gave the vocal floor
C17_Witness ==
    /\ call.fn = "calibrateSilenceFromAudio" /\ ret.done
    /\ call.mode = "Singing"
    /\ LenBytes(call.t) = StepBytes - 4 + 1
    /\ ret.val = ToFloat64(Rat(5, 1000))

\* C15: analyzePitch returns one entry per 10 ms block: for a buffer holding
\* N complete blocks the track has length N, entry i being the result for
\* block i.
C15_OneEntryPerBlock ==
    (call.fn = "analyzePitch" /\ ret.done) =>
        /\ Len(ret.val) = LenBytes(call.t) \div StepBytes
        /\ \A k \in 1..Len(ret.blocks) :
              ret.blocks[k] =
                  AnalyzeBlock(call.t, call.mode, ret.minEnergy, (k - 1) * StepBytes)

\* start + j/(L+1) * (end - start), computed in float64 as it is written
StatedInterpolation(start, end, j, L) ==
    The({The({FAdd(start, FMul(t, d)) : d \in {FSub(end, start)}}) :
             t \in {ToFloat64(Rat(j, L + 1))}})

\* C13: fillShortGaps with maximum m replaces every maximal run of zeros of
\* length L <= m that has a nonzero entry right before and right after it by
\* the linear interpolation between those two entries, the j-th entry of the
\* run (from 1) getting start + j/(L+1) * (end - start); every longer run and
\* every run touching the first or the last index stays zero.
C13_GapFill ==
    (call.fn = "fillShortGaps" /\ ret.done) =>
        /\ Len(ret.val) = Len(call.pitches)
        /\ \A s \in 1..Len(call.pitches) : \A e \in s..Len(call.pitches) :
              ZeroRun(call.pitches, s, e) =>
                  IF e - s + 1 <= call.maxGapFrames /\ s > 1 /\ e < Len(call.pitches)
                  THEN \A j \in s..e :
                          ret.val[j] =
                              StatedInterpolation(call.pitches[s - 1], call.pitches[e + 1],
                                                  j - s + 1, e - s + 1)
                  ELSE \A j \in s..e : ret.val[j] = FZero

\* the track [1, 1, 0, 0, 0, 2, 2] was filled with maximum 3, and the track
\* [1, 0, 0, 2] with maximum 2, its second gap entry being 1 + (2/3 rounded)
C13_Witness ==
    /\ call.fn = "fillShortGaps" /\ ret.done
    /\ \/ /\ call.pitches = <<FromInt(1), FromInt(1), FZero, FZero, FZero,
                              FromInt(2), FromInt(2)>>
          /\ call.maxGapFrames = 3
          /\ ret.val = <<FromInt(1), FromInt(1), ToFloat64(Rat(5, 4)), ToFloat64(Rat(3, 2)),
                         ToFloat64(Rat(7, 4)), FromInt(2), FromInt(2)>>
       \/ /\ call.pitches = <<FromInt(1), FZero, FZero, FromInt(2)>>
          /\ call.maxGapFrames = 2
          /\ ret.val[3] = FAdd(FromInt(1), ToFloat64(Rat(2, 3)))
          /\ ret.val[3] # ToFloat64(Rat(5, 3))

(* ----------------------------- block energy ----------------------------- *)
\* the squares of the first k samples, each as float32 holds it, added in
\* order in float64
RECURSIVE SquaresInOrder(_, _)
SquaresInOrder(samples, k) ==
    IF k = 0 THEN FZero
    ELSE FAdd(SquaresInOrder(samples, k - 1),
              FScale(FromInt(Round24(samples[k] * samples[k])), -30))

\* C19: CalculateEnergy returns the mean of the squared amplitudes of the
\* block: 0 for an all-zero block, 1 for a block of samples all +1 or -1, and
\* a value in [0, 1] for every non-empty block of samples in [-1, 1]
C19_MeanOfSquares ==
    (call.fn = "CalculateEnergy" /\ ret.done) =>
        /\ ret.val = FDivInt(SquaresInOrder(call.samples, Len(call.samples)),
                             Len(call.samples))
        /\ (\A k \in 1..Len(call.samples) : call.samples[k] = 0) =>
               ret.val = FZero
        /\ (\A k \in 1..Len(call.samples) : Abs(call.samples[k]) = SampleDen) =>
               ret.val = FromInt(1)
        /\ FLe(FZero, ret.val) /\ FLe(ret.val, FromInt(1))

\* a full-scale square wave of MaxEnergyLen samples has energy 1
C19_Witness ==
    /\ call.fn = "CalculateEnergy" /\ ret.done
    /\ Len(call.samples) = MaxEnergyLen
    /\ \A k \in 1..MaxEnergyLen :
           call.samples[k] = IF k % 2 = 1 THEN SampleDen ELSE -SampleDen
    /\ ret.val = FromInt(1)

(* ------------------------------ note names ------------------------------ *)
\* m is the nearest-integer MIDI number of the frequency: the MIDI number lies
\* within half a semitone of m
NearestMidi(freq, m) ==
    /\ FLe(FromInt(2 * m - 1), FScale(FreqToMidi(freq), 1))
    /\ FLe(FScale(FreqToMidi(freq), 1), FromInt(2 * m + 1))

\* C20: for every frequency > 0, with m its nearest-integer MIDI number,
\* FreqToNote returns the name at index m mod 12 of C..B and the octave
\* floor(m/12) - 1; a frequency <= 0 gives ("-", 0)
C20_NoteOfFrequency ==
    (call.fn = "FreqToNote" /\ ret.done) =>
        IF ~FPositive(call.freq)
        THEN ret.val = [note |-> "-", octave |-> 0]
        ELSE \E m \in (-48)..144 :
                /\ NearestMidi(call.freq, m)
                /\ ret.val = [note |-> notes[(m % 12) + 1], octave |-> (m \div 12) - 1]

(* ------------------------------- MicHandler ----------------------------- *)
\* the first attempt of a course of the device that opens and starts the
\* stream, 0 if none does
FirstOk(outcomes) ==
    IF \E k \in 1..Len(outcomes) : outcomes[k] = "ok"
    THEN CHOOSE k \in 1..Len(outcomes) :
            outcomes[k] = "ok" /\ \A j \in 1..(k - 1) : outcomes[j] # "ok"
    ELSE 0

\* C21: Start makes at most 3 attempts, sleeps a strictly longer delay before
\* each retry, returns nil at the first attempt that opens and starts the
\* stream, and otherwise returns an error leaving the handler with no stream
\* and no Done channel
C21_StartRetries ==
    /\ call.fn = "Start" =>
          /\ Len(call.outcomes) <= 3
          /\ \A k \in 1..(Len(call.slept) - 1) : call.slept[k] < call.slept[k + 1]
          /\ \A k \in 1..Len(call.slept) : call.slept[k] > 0
          /\ \A k \in 1..(Len(call.outcomes) - 1) : call.outcomes[k] # "ok"
    /\ (call.fn = "Start" /\ ret.done) =>
          /\ Len(call.slept) = Len(call.outcomes) - 1
          /\ IF FirstOk(call.outcomes) > 0
             THEN /\ ret.err = "nil"
                  /\ Len(call.outcomes) = FirstOk(call.outcomes)
                  /\ handlers[1].Stream = "open" /\ handlers[1].Done = "open"
             ELSE /\ ret.err # "nil"
                  /\ Len(call.outcomes) = 3
                  /\ handlers[1].Stream = "nil" /\ handlers[1].Done = "nil"

\* Start succeeded at its third attempt, after two retries and two delays
C21_Witness ==
    /\ call.fn = "Start" /\ ret.done
    /\ call.outcomes = <<"open_fails", "start_fails", "ok">>
    /\ ret.err = "nil" /\ call.slept = <<200, 400>>

(* ------------------------------ load failure --------------------------- *)
\* C22: when LoadAndAnalyzeSong returns an error, calibrateAndPlay publishes
\* the error as the status message and aborts the session: there is no audio
\* player, no pitch track and no capture thread of the session afterwards, and
\* the session is not in the Playing state
C22_LoadErrorAborts ==
    [][\A s \in Sessions :
          (g[s].pc = "cal_err" /\ g'[s].pc = "done") =>
              /\ message' = "ErrorLoad"
              /\ audioPlayer'.nil
              /\ songPitch' = "nil"
              /\ ~MicLoopRunning(s)'
              /\ state' # "Playing"]_appVars

(* ------------------------------ numeric edges -------------------------- *)
\* C23: no operation of the engine aborts at a numeric edge and each returns
\* its default: CalculateEnergy and DetectPitch return 0 on an empty block,
\* batch calibration returns the floor on a buffer of no blocks, Smooth indexes
\* its buffer within range, and FreqToNote returns one of the 12 names for
\* every frequency > 0
C23_EdgeDefaults ==
    /\ (call.fn = "Smooth") => call.s.cursor \in 0..(Len(call.s.buffer) - 1)
    /\ ret.done =>
          /\ (call.fn = "CalculateEnergy" /\ call.samples = <<>>) => ret.val = FZero
          /\ (call.fn = "DetectPitch" /\ call.samples = <<>>) => ret.val = RZero
          /\ (call.fn = "calibrateSilenceFromAudio" /\ LenBytes(call.t) < StepBytes) =>
                ret.val = StatedFloor(call.mode)
          /\ (call.fn = "FreqToNote" /\ FPositive(call.freq)) =>
                \E k \in 1..Len(notes) : ret.val.note = notes[k]

(* ------------------------------ the renderer ---------------------------- *)
\* floor(t * 100) for a time of ms milliseconds; \div rounds down
LookupIndex(ms) == ms \div 10

\* C24: drawPlayingMode, DrawSongPitch and DrawUserPitch read the pitch track
\* only at indices i with 0 <= i < len(track), for every playback time and
\* every track length, and the index looked up for a time t is floor(t * 100):
\* the track is read there when that index is in range and not read otherwise
C24_LookupsInBounds ==
    (call.fn = "drawPlayingMode" /\ ret.done) =>
        /\ \A i \in ret.val.note \cup ret.val.song : 0 <= i /\ i < Len(call.songPitch)
        /\ \A r \in ret.val.user : 0 <= r.sIdx /\ r.sIdx < Len(call.songPitch)
        /\ ret.val.note = {LookupIndex(call.currMs)} \cap (0..(Len(call.songPitch) - 1))
        /\ \A r \in ret.val.user :
              r.sIdx = LookupIndex(FTrunc(call.userPitch[r.i + 1]) - AudioLatencyMs)

(* ---------------------------- smoother reset --------------------------- *)
\* C25: after every step of the live pipeline that publishes a pitch <= 0,
\* whether the gate rejected the block or the Detector returned 0, every entry
\* of the Smoother's buffer is zero; and the Smoother of a new session's
\* handler holds zeros only
C25_ResetOnSilence ==
    /\ \A i \in 1..SmootherSize : NewMicHandler.Smoother.buffer[i] = FZero
    /\ (call.fn = "DetectPitchFromMic" /\ ret.done /\ ~FPositive(ret.val)) =>
          /\ ~FPositive(ret.m.Pitch)
          /\ \A i \in 1..Len(ret.m.Smoother.buffer) : ret.m.Smoother.buffer[i] = FZero

(* ------------------------------ capture steps -------------------------- *)
\* the session is playing: state Playing, a player exists and it is playing
SessionPlaying == state = "Playing" /\ ~audioPlayer.nil /\ audioPlayer.playing

\* C27: a capture step appends to the history if and only if the session is
\* playing at that step: it goes on to append only when the session is playing
\* as it checks the player, and skips the append only when it is not; the pair
\* it appends to the history is (the playback position in ms, the pitch of
\* that step), and a prune at that position follows; nothing is appended while
\* playback is paused or absent or the session is calibrating or on the start
\* screen
C27_AppendIffPlaying ==
    [][\A s \in Sessions :
          /\ (g[s].pc = "ml_isplaying" /\ g'[s].pc = "ml_pos") => SessionPlaying
          /\ (g[s].pc = "ml_append2" /\ g'[s].pc = "ml_prune") =>
                userPitch' = userPitch \o <<RInt(g[s].pos), g[s].pitch>>
          /\ (g[s].pc \in {"ml_prune", "ml_prune_scan", "ml_prune_store"}
                 /\ g'[s].pc = "ml_unlock") =>
                userPitch' = pruneUserPitch(userPitch, g[s].pos)
          /\ (g[s].pc \in {"ml_state", "ml_chkplayer", "ml_isplaying"}
                 /\ g'[s].pc \in {"ml_top", "ml_unlock"}) =>
                ~SessionPlaying]_appVars

(* ---------------------------- detector bounds -------------------------- *)
\* C28: in every mode the live pipeline calls the Detector with the bounds the
\* TrackAnalyzer uses for that mode: 100 to 1200 Hz in vocal-only mode and 40
\* to 2000 Hz otherwise
C28_SameBounds ==
    (call.fn = "DetectPitchFromMic" /\ ret.done /\ ret.detected) =>
        /\ ret.minF = TrackMinF(call.mode) /\ ret.maxF = TrackMaxF(call.mode)
        /\ ret.minF = (IF call.mode = "Singing" THEN 100 ELSE 40)
        /\ ret.maxF = (IF call.mode = "Singing" THEN 1200 ELSE 2000)

\* C29: in vocal-only mode every entry of the track analyzePitch returns is 0
\* or lies in [80, 1000] Hz
C29_VocalRange ==
    (call.fn = "analyzePitch" /\ ret.done /\ call.mode = "Singing") =>
        \A k \in 1..Len(ret.val) :
            \/ ret.val[k] = FZero
            \/ FLe(FromInt(80), ret.val[k]) /\ FLe(ret.val[k], FromInt(1000))

\* a vocal-only track with a block the Detector put above 1000 Hz, entered
\* as 0
C29_Witness ==
    /\ call.fn = "analyzePitch" /\ ret.done /\ call.mode = "Singing"
    /\ \E k \in 1..Len(ret.val) :
          /\ ret.blocks[k].detected
          /\ ret.val[k] = FZero
          /\ RLt(RInt(1000),
                 DetectPitch(FloatBuf(call.t, (k - 1) * StepBytes),
                             TrackMinF("Singing"), TrackMaxF("Singing")))

\* the pairs of the history up whose timestamp is >= minMs
Recent(up, minMs) ==
    {k \in 1..HistoryPairs(up) : RLe(RInt(minMs), TimeAt(up, k))}

\* the history up from its first pair with a timestamp >= minMs on
SuffixFrom(up, minMs) ==
    IF Recent(up, minMs) = {} THEN <<>>
    ELSE SubSeq(up, 2 * (CHOOSE k \in Recent(up, minMs) :
                            \A l \in Recent(up, minMs) : k <= l) - 1, Len(up))

\* C30: pruneUserPitch(currentMs) on any history, sorted or not, with
\* minMs = currentMs - 30000: the history is unchanged if minMs <= 0, and is
\* otherwise the suffix of the prior history from its first entry with a
\* timestamp >= minMs on, every entry before that point being dropped
C30_PruneSuffix ==
    (call.fn = "pruneUserPitch" /\ ret.done) =>
        ret.val = IF call.currentMs - MaxUserPitchHistoryMs <= 0
                  THEN call.userPitch
                  ELSE SuffixFrom(call.userPitch,
                                  call.currentMs - MaxUserPitchHistoryMs)

(* ------------------------------ after the exit ------------------------- *)
\* exitToMenu has returned and no startGame has begun since
IdleAfterExit ==
    ui.pc = "idle" /\ mic = 0 /\ sessions >= 1 /\ state = "StartScreen"

\* C31: after exitToMenu the session stays idle until the next startGame:
\* whatever the calibrateAndPlay goroutine of the exited session does, the
\* state stays StartScreen, no audio player is installed or started, no
\* capture thread is launched and no nil microphone handler is dereferenced
C31_IdleAfterExit ==
    [][(IdleAfterExit /\ ui' = ui) =>
          /\ state' = "StartScreen"
          /\ audioPlayer' = audioPlayer
          /\ \A s \in Sessions : ~(g[s].pc = "cal_unlock" /\ g'[s].pc = "ml_top")
          /\ ~crashed']_appVars

\* Start has succeeded on the handler of session h
Started(h) == g[h].pc # "none"

\* C32: the stop signal is sticky: once Stop has been called on a started
\* handler, every later IsDone on it returns true, also after Stop returned
C32_StopSignalSticky ==
    [][\A s \in Sessions :
          (/\ g[s].pc = "ml_isdone" /\ g'[s].pc # "ml_isdone"
           /\ mic # 0 /\ Started(mic) /\ StopCalled(mic)) =>
              g'[s].pc = "done"]_appVars

\* C33: in every reachable state the flat history has even length, whole
\* timestamp/pitch pairs only, so the renderer's read of element i + 1 for
\* every even i below the length is in range
C33_WholePairs ==
    /\ Len(userPitch) % 2 = 0
    /\ \A i \in 0..(Len(userPitch) - 1) : i % 2 = 0 => i + 1 <= Len(userPitch) - 1

\* the renderer holds the lock over a history with readings, in a session
\* begun after a cleanup
C33_Witness ==
    /\ ui.pc = "draw_locked"
    /\ sessions = 2
    /\ Len(userPitch) >= 2

\* C34: every nonzero frequency DetectPitch returns for a 10 ms block lies
\* within the bounds it was given, minFreq <= f <= maxFreq, for the bounds the
\* program uses (40/2000, 100/1200, 85/1100)
C34_WithinBounds ==
    (/\ call.fn = "DetectPitch" /\ ret.done
     /\ Len(call.samples) = StepFrames /\ ret.val # RZero) =>
        /\ RLe(RInt(call.minFreq), ret.val)
        /\ RLe(ret.val, RInt(call.maxFreq))

(* ------------------------------ gap filling ---------------------------- *)
\* C35: fillShortGaps leaves the slice it was handed as it was, returns a
\* track of the length of its input, with every entry that was > 0 unchanged
\* at its index, and every value it writes into a gap is > 0 and lies between
\* the two boundary values of that gap (inclusive)
C35_FillFrame ==
    (call.fn = "fillShortGaps" /\ ret.done) =>
        /\ ret.pitches = call.pitches
        /\ Len(ret.val) = Len(call.pitches)
        /\ \A k \in 1..Len(call.pitches) :
              /\ FLt(FZero, call.pitches[k]) => ret.val[k] = call.pitches[k]
              /\ ret.val[k] # call.pitches[k] =>
                    /\ FLt(FZero, ret.val[k])
                    /\ \E s \in 2..k : \E e \in k..(Len(call.pitches) - 1) :
                          /\ ZeroRun(call.pitches, s, e)
                          /\ \/ /\ FLe(call.pitches[s - 1], ret.val[k])
                                /\ FLe(ret.val[k], call.pitches[e + 1])
                             \/ /\ FLe(call.pitches[e + 1], ret.val[k])
                                /\ FLe(ret.val[k], call.pitches[s - 1])

\* the gap of [2, 0, 0, 1] was filled with values going down, strictly
\* between 2 and 1, in the slice returned and not in the one handed in
C35_Witness ==
    /\ call.fn = "fillShortGaps" /\ ret.done
    /\ call.pitches = <<FromInt(2), FZero, FZero, FromInt(1)>>
    /\ ret.pitches = call.pitches /\ ret.val # ret.pitches
    /\ FLt(ret.val[2], FromInt(2)) /\ FLt(ret.val[3], ret.val[2])
    /\ FLt(FromInt(1), ret.val[3])

\* C36: fillShortGaps is idempotent: filling a filled track again with the
\* same maximum changes nothing
C36_FillIdempotent ==
    (call.fn = "fillShortGaps" /\ ret.done) =>
        fillShortGaps(ret.val, call.maxGapFrames).result = ret.val

\* of the track [1, 0, 2, 0, 0, 0, 1] with maximum 2 the first gap was filled
\* and the second stayed, and filling it again filled nothing more
C36_Witness ==
    /\ call.fn = "fillShortGaps" /\ ret.done
    /\ call.pitches = <<FromInt(1), FZero, FromInt(2), FZero, FZero, FZero, FromInt(1)>>
    /\ call.maxGapFrames = 2
    /\ ret.val = <<FromInt(1), ToFloat64(Rat(3, 2)), FromInt(2), FZero, FZero, FZero,
                   FromInt(1)>>
    /\ fillShortGaps(ret.val, call.maxGapFrames).result = ret.val

(* --------------------------- microphone failure ------------------------ *)
\* the UI thread is inside the Stop that cleanup calls on the handler a.mic
InStop == ui.pc \in {"cl_mic", "stop_sleep", "stop_stream", "stop_done"} /\ mic # 0

\* C37: when a.mic.Start() fails, startGame returns with the state
\* StartScreen and an error message and starts no goroutine; a goroutine is
\* started only for a handler whose Start succeeded; and the cleanup of a
\* later startGame stops the failed handler without harm
C37_StartFailure ==
    [][/\ (ui.pc = "sg_fail2" /\ ui'.pc = "idle") =>
             /\ state' = "StartScreen"
             /\ message' = "ErrorMic"
             /\ g' = g /\ g[mic].pc = "none"
       /\ \A s \in Sessions :
             (g[s].pc = "none" /\ g'[s].pc # "none") =>
                 /\ mic = s /\ g'[s].pc = "cal_begin"
                 /\ handlers[s].Stream = "open" /\ handlers[s].Done = "open"
       /\ (InStop /\ ui.ret = "sg" /\ ui' # ui /\ g[mic].pc = "none") =>
             /\ ~crashed'
             /\ handlers'[mic].Stream = "nil" /\ handlers'[mic].Done = "nil"
      ]_appVars

(* --------------------------- Stop and cleanup -------------------------- *)
\* C38: Stop is safe in every handler state and idempotent: on a handler never
\* started, whose Start failed, or already stopped it panics at no close,
\* closes no channel and no stream a second time and leaves the handler with
\* no stream and no Done channel; and cleanup, called any number of times in a
\* row, leaves mic, audio player and pitch track nil and the history empty
C38_StopIdempotent ==
    /\ ~crashed
    /\ call.dones - call.chanCloses = (IF handlers[1].Done = "open" THEN 1 ELSE 0)
    /\ call.opens - call.streamCloses = (IF handlers[1].Stream = "nil" THEN 0 ELSE 1)
    /\ (call.fn = "Stop" /\ ret.done) =>
          handlers[1].Stream = "nil" /\ handlers[1].Done = "nil"
    /\ (call.fn = "cleanup" /\ ret.done) =>
          /\ mic = 0 /\ audioPlayer.nil /\ songPitch = "nil" /\ userPitch = <<>>
          /\ message = ""

\* a handler that Start had started was stopped, and the third call after it,
\* a Stop, has returned with its one channel and its one stream closed once
C38_Witness ==
    /\ call.fn = "Stop" /\ ret.done /\ call.n = MaxStopCalls
    /\ call.dones = 1 /\ call.chanCloses = 1
    /\ call.opens = 1 /\ call.streamCloses = 1

(* --------------------------- live calibration -------------------------- *)
\* calibrateAndPlay of session h has been launched and its Calibrate has not
\* yet set the threshold
Calibrating(h) ==
    g[h].pc \in {"cal_begin", "cal_loop", "cal_devread", "cal_inread", "cal_thr"}

\* the greatest of the energies, 0 when there is none
Greatest(energies) ==
    IF energies = <<>> THEN FZero
    ELSE CHOOSE x \in {energies[k] : k \in 1..Len(energies)} :
            \A k \in 1..Len(energies) : FLe(energies[k], x)

\* C18: when Calibrate returns, the threshold of the session's microphone is
\* 1.5 times the greatest block energy observed during the pass, so every
\* observed energy is <= the threshold; and no gate decision is taken on the
\* microphone of a session whose calibration has not yet set the threshold.
C18_LiveCalibration ==
    [][\A s \in Sessions :
          /\ (g[s].pc = "cal_thr" /\ g'[s].pc = "cal_state") =>
                /\ handlers'[g[s].h].Threshold =
                       FMul(ToFloat64(Rat(3, 2)), Greatest(g[s].energies))
                /\ \A k \in 1..Len(g[s].energies) :
                       FLe(g[s].energies[k], handlers'[g[s].h].Threshold)
          /\ (g[s].pc = "ml_detect" /\ g'[s].pc = "ml_lock") =>
                ~Calibrating(mic)]_appVars

====
